---- MODULE Spec2Model ----
(***************************************************************************)
(* A model of the gain-map core of libultrahdr: the tile job queue, the    *)
(* gain-map generator and applier (validation, emitted descriptors and     *)
(* metadata, the multi-threaded row scheduler), the tone mapper and the    *)
(* geometric editor.                                                       *)
(*                                                                         *)
(* Floats are modelled as exact rationals <<numerator, denominator>>.      *)
(* Pointers are "nullptr", "buf" (a live allocation) or "freed".           *)
(* Pixel memory is a function from a flat index to a sample value.         *)
(***************************************************************************)
EXTENDS Integers, Sequences, FiniteSets, TLC

VARIABLES
  call,            \* the API call being executed: function name and by-value arguments
  metadata,        \* *metadata, the in/out ultrahdr_metadata_struct
  dest,            \* *dest, the out ultrahdr_uncompressed_struct
  status,          \* "pending" until the call returns, then its status_t
  locals,          \* locals of the call: threads, rowStep, rowStart, rows, map_scale_factor, th
  mJobs,           \* JobQueue::mJobs
  mQueuedAllJobs,  \* JobQueue::mQueuedAllJobs
  tpc,             \* position of every thread (0 is the calling thread)
  tjob,            \* the (rowStart, rowEnd) a thread holds after dequeueJob returned true
  written,         \* output row -> number of times the row loop body ran for it
  enqueued,        \* history: the jobs passed to enqueueJob, in order
  dequeued,        \* history: the jobs returned by dequeueJob, in order
  sampler,         \* the sampleMap overloads applyGainMap has used so far
  tone,            \* state of a toneMap call
  edit,            \* state of an editor call
  uhdr             \* the members of the UltraHdr object, and the last call made on it

vars == <<call, metadata, dest, status, locals, mJobs, mQueuedAllJobs, tpc, tjob,
          written, enqueued, dequeued, sampler, tone, edit, uhdr>>

gmVars == <<call, metadata, dest, status, locals, mJobs, mQueuedAllJobs, tpc, tjob,
            written, enqueued, dequeued, sampler>>

(***************************************************************************)
(* Program constants                                                       *)
(***************************************************************************)
kJobSzInRows == 16
kMapDimensionScaleFactor == 4
kMaxThreads == 4
kGainMapVersion == "1.0"
kSdrWhiteNits == 203
kHlgMaxNits == 1000
kPqMaxNits == 10000

(***************************************************************************)
(* Bounds of the model                                                     *)
(***************************************************************************)
MaxCores == 5          \* scheduler runs: GetCPUCoreCount() ranges over 1..MaxCores
MaxHeightUnits == 5    \* scheduler runs: generator image heights 8*k, k in 0..MaxHeightUnits
MaxMapRows == 2        \* scheduler runs: applier gain-map heights 1..MaxMapRows
MaxApiUnits == 4       \* argument checks: image sides 2*k, k in 1..MaxApiUnits; map sides 0..MaxApiUnits

Min(a, b) == IF a < b THEN a ELSE b

(***************************************************************************)
(* Floats as rationals                                                     *)
(***************************************************************************)
Rat(n, d) == <<n, d>>
RatEq(a, b) == a[1] * b[2] = b[1] * a[2]
RatLe(a, b) == a[1] * b[2] <= b[1] * a[2]
RatDiv(a, b) == <<a[1] * b[2], a[2] * b[1]>>
RatMin(a, b) == IF RatLe(b, a) THEN b ELSE a
ToFloat(n) == Rat(n, 1)
floorf(q) == Rat(q[1] \div q[2], 1)

(***************************************************************************)
(* status_t                                                                *)
(***************************************************************************)
ULTRAHDR_NO_ERROR == "ULTRAHDR_NO_ERROR"
ERROR_ULTRAHDR_BAD_PTR == "ERROR_ULTRAHDR_BAD_PTR"
ERROR_ULTRAHDR_INVALID_COLORGAMUT == "ERROR_ULTRAHDR_INVALID_COLORGAMUT"
ERROR_ULTRAHDR_INVALID_TRANS_FUNC == "ERROR_ULTRAHDR_INVALID_TRANS_FUNC"
ERROR_ULTRAHDR_RESOLUTION_MISMATCH == "ERROR_ULTRAHDR_RESOLUTION_MISMATCH"
ERROR_ULTRAHDR_BAD_METADATA == "ERROR_ULTRAHDR_BAD_METADATA"
ERROR_ULTRAHDR_INVALID_CROPPING_PARAMETERS == "ERROR_ULTRAHDR_INVALID_CROPPING_PARAMETERS"
ERROR_ULTRAHDR_UNSUPPORTED_MAP_SCALE_FACTOR == "ERROR_ULTRAHDR_UNSUPPORTED_MAP_SCALE_FACTOR"
ERROR_ULTRAHDR_UNSUPPORTED_FEATURE == "ERROR_ULTRAHDR_UNSUPPORTED_FEATURE"
ERROR_ULTRAHDR_INVALID_OUTPUT_FORMAT == "ERROR_ULTRAHDR_INVALID_OUTPUT_FORMAT"
ERROR_ULTRAHDR_INSUFFICIENT_RESOURCE == "ERROR_ULTRAHDR_INSUFFICIENT_RESOURCE"
ERROR_ULTRAHDR_ENCODE_ERROR == "ERROR_ULTRAHDR_ENCODE_ERROR"
ERROR_ULTRAHDR_DECODE_ERROR == "ERROR_ULTRAHDR_DECODE_ERROR"
ERROR_ULTRAHDR_METADATA_ERROR == "ERROR_ULTRAHDR_METADATA_ERROR"
ERROR_ULTRAHDR_BUFFER_TOO_SMALL == "ERROR_ULTRAHDR_BUFFER_TOO_SMALL"
ERROR_ULTRAHDR_GAIN_MAP_IMAGE_NOT_FOUND == "ERROR_ULTRAHDR_GAIN_MAP_IMAGE_NOT_FOUND"
ERROR_ULTRAHDR_MULTIPLE_EXIFS_RECEIVED == "ERROR_ULTRAHDR_MULTIPLE_EXIFS_RECEIVED"

\* What a build does on `a % 0` with a > 0: it traps (x86), or the division yields 0 and
\* the remainder a - 0 * 0 = a is non-zero (ARM), which takes the scale-factor return.
UndefinedOutcomes == {"SIGFPE", ERROR_ULTRAHDR_UNSUPPORTED_MAP_SCALE_FACTOR}

ColorGamuts == {"UNSPECIFIED", "BT709", "P3", "BT2100"}
TransferFunctions == {"UNSPECIFIED", "LINEAR", "HLG", "PQ", "SRGB"}
OutputFormats == {"SDR", "HDR_LINEAR", "HDR_PQ", "HDR_HLG"}


(***************************************************************************)
(* Argument structures of the gain-map calls                               *)
(***************************************************************************)
\* an ultrahdr_uncompressed_struct* argument: `null` is the struct pointer itself
Image(null, data, chroma_data, width, height, colorGamut) ==
  [null |-> null, data |-> data, chroma_data |-> chroma_data,
   width |-> width, height |-> height, colorGamut |-> colorGamut]

NullImage == Image(TRUE, "nullptr", "nullptr", 0, 0, "UNSPECIFIED")

\* an ultrahdr_metadata_struct* argument
Metadata(null, version, maxBoost, minBoost, gamma, offsetSdr, offsetHdr, capMin, capMax) ==
  [null |-> null, version |-> version, maxContentBoost |-> maxBoost,
   minContentBoost |-> minBoost, gamma |-> gamma, offsetSdr |-> offsetSdr,
   offsetHdr |-> offsetHdr, hdrCapacityMin |-> capMin, hdrCapacityMax |-> capMax]

NullMetadata ==
  Metadata(TRUE, "", Rat(0, 1), Rat(0, 1), Rat(0, 1), Rat(0, 1), Rat(0, 1), Rat(0, 1), Rat(0, 1))

\* the out-parameter ultrahdr_uncompressed_struct* dest
Dest(null, data, width, height) ==
  [null |-> null, data |-> data, width |-> width, height |-> height,
   colorGamut |-> "UNSPECIFIED", luma_stride |-> 0, chroma_data |-> "nullptr",
   chroma_stride |-> 0, pixelFormat |-> "UNSPECIFIED"]

(***************************************************************************)
(* GetCPUCoreCount and the thread count                                    *)
(***************************************************************************)
GetCPUCoreCount(detected) == IF detected <= 0 THEN 1 ELSE detected

ThreadCount(detected) == Min(GetCPUCoreCount(detected), kMaxThreads)

(***************************************************************************)
(* UltraHdr::generateGainMap, up to the start of the parallel phase        *)
(***************************************************************************)
\* a checks-reordered variant: the gamut test ahead of the resolution test
generateGainMapStatusGamutFirst(yuv, p010, md, dst, hdr_tf) ==
  IF yuv.null \/ p010.null \/ md.null \/ dst.null \/ yuv.data = "nullptr"
     \/ yuv.chroma_data = "nullptr" \/ p010.data = "nullptr" \/ p010.chroma_data = "nullptr"
  THEN ERROR_ULTRAHDR_BAD_PTR
  ELSE IF yuv.colorGamut = "UNSPECIFIED" \/ p010.colorGamut = "UNSPECIFIED"
  THEN ERROR_ULTRAHDR_INVALID_COLORGAMUT
  ELSE IF yuv.width # p010.width \/ yuv.height # p010.height
  THEN ERROR_ULTRAHDR_RESOLUTION_MISMATCH
  ELSE IF hdr_tf \notin {"LINEAR", "HLG", "PQ"}
  THEN ERROR_ULTRAHDR_INVALID_TRANS_FUNC
  ELSE "pending"

\* the early returns of generateGainMap, in the order of the code; "pending" when none is taken
generateGainMapStatus(yuv, p010, md, dst, hdr_tf) ==
  IF yuv.null \/ p010.null \/ md.null \/ dst.null \/ yuv.data = "nullptr"
     \/ yuv.chroma_data = "nullptr" \/ p010.data = "nullptr" \/ p010.chroma_data = "nullptr"
  THEN ERROR_ULTRAHDR_BAD_PTR
  ELSE IF yuv.width # p010.width \/ yuv.height # p010.height
  THEN ERROR_ULTRAHDR_RESOLUTION_MISMATCH
  ELSE IF yuv.colorGamut = "UNSPECIFIED" \/ p010.colorGamut = "UNSPECIFIED"
  THEN ERROR_ULTRAHDR_INVALID_COLORGAMUT
  ELSE IF hdr_tf \notin {"LINEAR", "HLG", "PQ"}
  THEN ERROR_ULTRAHDR_INVALID_TRANS_FUNC
  ELSE "pending"

\* a variant that sizes the map by the job size instead of the map scale factor
gainMapDescriptorByJobSize(yuv, dst, data) ==
  [dst EXCEPT !.data = data,
              !.width = yuv.width \div kJobSzInRows,
              !.height = yuv.height \div kJobSzInRows,
              !.colorGamut = "UNSPECIFIED",
              !.luma_stride = yuv.width \div kJobSzInRows,
              !.chroma_data = "nullptr",
              !.chroma_stride = 0,
              !.pixelFormat = "MONOCHROME"]

\* the gain-map descriptor written to *dest; `data` is "buf", or "freed" when the
\* unique_ptr that owns the allocation goes out of scope on an early return
gainMapDescriptor(yuv, dst, data) ==
  [dst EXCEPT !.data = data,
              !.width = yuv.width \div kMapDimensionScaleFactor,
              !.height = yuv.height \div kMapDimensionScaleFactor,
              !.colorGamut = "UNSPECIFIED",
              !.luma_stride = yuv.width \div kMapDimensionScaleFactor,
              !.chroma_data = "nullptr",
              !.chroma_stride = 0,
              !.pixelFormat = "MONOCHROME"]

\* a variant that gives every transfer function the HLG white level
hdrWhiteNitsAlwaysHlg(hdr_tf) == kHlgMaxNits

\* hdr_white_nits as chosen by the switch on hdr_tf
hdrWhiteNits(hdr_tf) ==
  CASE hdr_tf = "LINEAR" -> kHlgMaxNits
    [] hdr_tf = "HLG" -> kHlgMaxNits
    [] hdr_tf = "PQ" -> kPqMaxNits

\* the metadata generateGainMap emits
gainMapMetadata(md, hdr_tf) ==
  LET maxContentBoost == RatDiv(ToFloat(hdrWhiteNits(hdr_tf)), ToFloat(kSdrWhiteNits))
  IN [md EXCEPT !.version = kGainMapVersion,
                !.maxContentBoost = maxContentBoost,
                !.minContentBoost = Rat(1, 1),
                !.gamma = Rat(1, 1),
                !.offsetSdr = Rat(0, 1),
                !.offsetHdr = Rat(0, 1),
                !.hdrCapacityMin = Rat(1, 1),
                !.hdrCapacityMax = maxContentBoost]

NoLocals ==
  [threads |-> 0, rowStep |-> 0, rowStart |-> 0, rows |-> 0, map_scale_factor |-> 0,
   th |-> 0, display_boost |-> Rat(0, 1)]

\* the calling thread enters generateGainMap and runs to the creation of the job queue
generateGainMap ==
  /\ tpc[0] = "entry"
  /\ call.fn = "generateGainMap"
  /\ LET yuv == call.yuv420_image_ptr
         st == generateGainMapStatus(yuv, call.p010_image_ptr, metadata, dest, call.hdr_tf)
         threads == ThreadCount(call.cores)
     IN IF st = "pending"
        THEN /\ dest' = gainMapDescriptor(yuv, dest, "buf")
             /\ metadata' = gainMapMetadata(metadata, call.hdr_tf)
             /\ locals' = [NoLocals EXCEPT
                             !.threads = threads,
                             !.rowStep = IF threads = 1 THEN yuv.height ELSE kJobSzInRows,
                             !.rows = yuv.height \div kMapDimensionScaleFactor,
                             !.map_scale_factor = kMapDimensionScaleFactor]
             /\ written' = [r \in 0 .. (yuv.height \div kMapDimensionScaleFactor) - 1 |-> 0]
             /\ tpc' = [tpc EXCEPT ![0] = "spawn"]
             /\ UNCHANGED status
        ELSE /\ dest' = IF st = ERROR_ULTRAHDR_INVALID_TRANS_FUNC
                        THEN gainMapDescriptor(yuv, dest, "freed")
                        ELSE dest
             /\ status' = st
             /\ tpc' = [tpc EXCEPT ![0] = "returned"]
             /\ UNCHANGED <<metadata, locals, written>>
  /\ UNCHANGED <<call, mJobs, mQueuedAllJobs, tjob, enqueued, dequeued, sampler, tone, edit, uhdr>>


(***************************************************************************)
(* UltraHdr::applyGainMap, up to the start of the parallel phase           *)
(***************************************************************************)
\* a variant without the test that the scale factor is an integer
applyGainMapStatusNoIntegerTest(yuv, gm, md, dst) ==
  IF yuv.null \/ gm.null \/ md.null \/ dst.null \/ yuv.data = "nullptr"
     \/ yuv.chroma_data = "nullptr" \/ gm.data = "nullptr"
  THEN ERROR_ULTRAHDR_BAD_PTR
  ELSE IF md.version # kGainMapVersion
  THEN ERROR_ULTRAHDR_BAD_METADATA
  ELSE IF ~RatEq(md.gamma, Rat(1, 1))
  THEN ERROR_ULTRAHDR_BAD_METADATA
  ELSE IF ~RatEq(md.offsetSdr, Rat(0, 1)) \/ ~RatEq(md.offsetHdr, Rat(0, 1))
  THEN ERROR_ULTRAHDR_BAD_METADATA
  ELSE IF ~RatEq(md.hdrCapacityMin, md.minContentBoost)
          \/ ~RatEq(md.hdrCapacityMax, md.maxContentBoost)
  THEN ERROR_ULTRAHDR_BAD_METADATA
  ELSE IF gm.width = 0 \/ gm.height = 0
  THEN "undefined"
  ELSE IF yuv.width * gm.height # yuv.height * gm.width
  THEN ERROR_ULTRAHDR_UNSUPPORTED_MAP_SCALE_FACTOR
  ELSE "pending"

\* a variant that tests the scale factor ahead of the metadata
applyGainMapStatusScaleFirst(yuv, gm, md, dst) ==
  IF yuv.null \/ gm.null \/ md.null \/ dst.null \/ yuv.data = "nullptr"
     \/ yuv.chroma_data = "nullptr" \/ gm.data = "nullptr"
  THEN ERROR_ULTRAHDR_BAD_PTR
  ELSE IF gm.width # 0 /\ gm.height # 0
          /\ (yuv.width % gm.width # 0 \/ yuv.height % gm.height # 0
              \/ yuv.width * gm.height # yuv.height * gm.width)
  THEN ERROR_ULTRAHDR_UNSUPPORTED_MAP_SCALE_FACTOR
  ELSE IF md.version # kGainMapVersion
  THEN ERROR_ULTRAHDR_BAD_METADATA
  ELSE IF ~RatEq(md.gamma, Rat(1, 1))
  THEN ERROR_ULTRAHDR_BAD_METADATA
  ELSE IF ~RatEq(md.offsetSdr, Rat(0, 1)) \/ ~RatEq(md.offsetHdr, Rat(0, 1))
  THEN ERROR_ULTRAHDR_BAD_METADATA
  ELSE IF ~RatEq(md.hdrCapacityMin, md.minContentBoost)
          \/ ~RatEq(md.hdrCapacityMax, md.maxContentBoost)
  THEN ERROR_ULTRAHDR_BAD_METADATA
  ELSE IF gm.width = 0 \/ gm.height = 0
  THEN "undefined"
  ELSE "pending"

\* the early returns of applyGainMap, in the order of the code; "pending" when none is
\* taken, "undefined" when a `%` is evaluated with a zero divisor
applyGainMapStatus(yuv, gm, md, dst) ==
  IF yuv.null \/ gm.null \/ md.null \/ dst.null \/ yuv.data = "nullptr"
     \/ yuv.chroma_data = "nullptr" \/ gm.data = "nullptr"
  THEN ERROR_ULTRAHDR_BAD_PTR
  ELSE IF md.version # kGainMapVersion
  THEN ERROR_ULTRAHDR_BAD_METADATA
  ELSE IF ~RatEq(md.gamma, Rat(1, 1))
  THEN ERROR_ULTRAHDR_BAD_METADATA
  ELSE IF ~RatEq(md.offsetSdr, Rat(0, 1)) \/ ~RatEq(md.offsetHdr, Rat(0, 1))
  THEN ERROR_ULTRAHDR_BAD_METADATA
  ELSE IF ~RatEq(md.hdrCapacityMin, md.minContentBoost)
          \/ ~RatEq(md.hdrCapacityMax, md.maxContentBoost)
  THEN ERROR_ULTRAHDR_BAD_METADATA
  ELSE IF gm.width = 0
  THEN "undefined"
  ELSE IF yuv.width % gm.width # 0
  THEN ERROR_ULTRAHDR_UNSUPPORTED_MAP_SCALE_FACTOR
  ELSE IF gm.height = 0
  THEN "undefined"
  ELSE IF yuv.height % gm.height # 0
  THEN ERROR_ULTRAHDR_UNSUPPORTED_MAP_SCALE_FACTOR
  ELSE IF yuv.width * gm.height # yuv.height * gm.width
  THEN ERROR_ULTRAHDR_UNSUPPORTED_MAP_SCALE_FACTOR
  ELSE "pending"

\* size_t map_scale_factor = width / map width
mapScaleFactor(yuv, gm) == yuv.width \div gm.width

\* which sampleMap overload the pixel loop calls: the comparison converts the size_t
\* scale factor to float on both sides
sampleMapOverload(map_scale_factor) ==
  IF ~RatEq(ToFloat(map_scale_factor), floorf(ToFloat(map_scale_factor)))
  THEN "bilinear"
  ELSE "idw"

\* the calling thread enters applyGainMap and runs to the creation of the job queue
applyGainMap ==
  /\ tpc[0] = "entry"
  /\ call.fn = "applyGainMap"
  /\ LET yuv == call.yuv420_image_ptr
         gm == call.gainmap_image_ptr
         st == applyGainMapStatus(yuv, gm, metadata, dest)
         threads == ThreadCount(call.cores)
     IN IF st = "pending"
        THEN /\ dest' = [dest EXCEPT !.width = yuv.width,
                                     !.height = yuv.height,
                                     !.colorGamut = yuv.colorGamut]
             /\ locals' = [NoLocals EXCEPT
                             !.threads = threads,
                             !.map_scale_factor = mapScaleFactor(yuv, gm),
                             !.rows = yuv.height,
                             !.display_boost =
                                RatMin(call.max_display_boost, metadata.maxContentBoost)]
             /\ written' = [r \in 0 .. yuv.height - 1 |-> 0]
             /\ tpc' = [tpc EXCEPT ![0] = "spawn"]
             /\ UNCHANGED status
        ELSE /\ IF st = "undefined"
                THEN status' \in UndefinedOutcomes
                ELSE status' = st
             /\ tpc' = [tpc EXCEPT ![0] = "returned"]
             /\ UNCHANGED <<dest, locals, written>>
  /\ UNCHANGED <<call, metadata, mJobs, mQueuedAllJobs, tjob, enqueued, dequeued, sampler,
                 tone, edit, uhdr>>


(***************************************************************************)
(* JobQueue                                                                *)
(***************************************************************************)
\* JobQueue::enqueueJob: push_back under the mutex
enqueueJob(jobs, rowStart, rowEnd) == Append(jobs, <<rowStart, rowEnd>>)

\* a variant that gives up as soon as the queue is empty
dequeueJobNoWait(jobs, queuedAllJobs) ==
  IF jobs = <<>>
  THEN [ret |-> "false", jobs |-> jobs, job |-> <<0, 0>>]
  ELSE [ret |-> "true", jobs |-> Tail(jobs), job |-> Head(jobs)]

\* a variant that returns the head job without erasing it
dequeueJobNoErase(jobs, queuedAllJobs) ==
  IF jobs = <<>>
  THEN IF queuedAllJobs
       THEN [ret |-> "false", jobs |-> jobs, job |-> <<0, 0>>]
       ELSE [ret |-> "wait", jobs |-> jobs, job |-> <<0, 0>>]
  ELSE [ret |-> "true", jobs |-> jobs, job |-> Head(jobs)]

\* JobQueue::dequeueJob, one pass of its loop with the mutex held: the value returned
\* ("wait" when it blocks in wait_for instead), the queue left behind, the job handed out
dequeueJob(jobs, queuedAllJobs) ==
  IF jobs = <<>>
  THEN IF queuedAllJobs
       THEN [ret |-> "false", jobs |-> jobs, job |-> <<0, 0>>]
       ELSE [ret |-> "wait", jobs |-> jobs, job |-> <<0, 0>>]
  ELSE [ret |-> "true", jobs |-> Tail(jobs), job |-> Head(jobs)]

(***************************************************************************)
(* The parallel phase of generateGainMap and applyGainMap                  *)
(***************************************************************************)
\* thread 0 is the caller; ids 1.. are the std::thread workers in creation order
Threads == 0 .. kMaxThreads

\* a variant that starts one worker per thread of the pool, the caller not counted
workerCountPerThread(threads) == threads

\* the number of std::thread objects the spawn loop creates
workerCount(threads) == threads - 1

\* the spawn loop: workers.push_back(std::thread(...))
spawnWorker ==
  /\ tpc[0] = "spawn"
  /\ locals.th < workerCount(locals.threads)
  /\ tpc' = [tpc EXCEPT ![locals.th + 1] = "dequeue"]
  /\ locals' = [locals EXCEPT !.th = @ + 1]
  /\ UNCHANGED <<call, metadata, dest, status, mJobs, mQueuedAllJobs, tjob, written,
                 enqueued, dequeued, sampler, tone, edit, uhdr>>

\* rowStep of the generator's enqueue loop, in gain-map rows
generateRowStep(threads, image_height) ==
  (IF threads = 1 THEN image_height ELSE kJobSzInRows) \div kMapDimensionScaleFactor

\* rowStep of the applier's enqueue loop, in image rows
applyRowStep(threads, image_height, map_scale_factor) ==
  IF threads = 1 THEN image_height ELSE map_scale_factor

\* every worker is started: the calling thread computes rowStep and turns to the enqueue loop
startEnqueue ==
  /\ tpc[0] = "spawn"
  /\ ~(locals.th < workerCount(locals.threads))
  /\ locals' = [locals EXCEPT
                  !.rowStart = 0,
                  !.rowStep = IF call.fn = "generateGainMap"
                              THEN generateRowStep(locals.threads,
                                                   call.yuv420_image_ptr.height)
                              ELSE applyRowStep(locals.threads,
                                                call.yuv420_image_ptr.height,
                                                locals.map_scale_factor)]
  /\ tpc' = [tpc EXCEPT ![0] = "enqueue"]
  /\ UNCHANGED <<call, metadata, dest, status, mJobs, mQueuedAllJobs, tjob, written,
                 enqueued, dequeued, sampler, tone, edit, uhdr>>

\* one pass of the enqueue loop
enqueueNext ==
  /\ tpc[0] = "enqueue"
  /\ locals.rowStart < locals.rows
  /\ LET rowEnd == Min(locals.rowStart + locals.rowStep, locals.rows)
     IN /\ mJobs' = enqueueJob(mJobs, locals.rowStart, rowEnd)
        /\ enqueued' = Append(enqueued, <<locals.rowStart, rowEnd>>)
        /\ locals' = [locals EXCEPT !.rowStart = rowEnd]
  /\ UNCHANGED <<call, metadata, dest, status, mQueuedAllJobs, tpc, tjob, written,
                 dequeued, sampler, tone, edit, uhdr>>

\* a variant of markQueueForEnd that notifies without setting the flag
markQueueForEndNoFlag ==
  /\ tpc[0] = "enqueue"
  /\ ~(locals.rowStart < locals.rows)
  /\ tpc' = [tpc EXCEPT ![0] = "dequeue"]
  /\ UNCHANGED <<call, metadata, dest, status, locals, mJobs, mQueuedAllJobs, tjob, written,
                 enqueued, dequeued, sampler, tone, edit, uhdr>>

\* the enqueue loop is over: JobQueue::markQueueForEnd, then the caller runs the closure
markQueueForEnd ==
  /\ tpc[0] = "enqueue"
  /\ ~(locals.rowStart < locals.rows)
  /\ mQueuedAllJobs' = TRUE
  /\ tpc' = [tpc EXCEPT ![0] = "dequeue"]
  /\ UNCHANGED <<call, metadata, dest, status, locals, mJobs, tjob, written,
                 enqueued, dequeued, sampler, tone, edit, uhdr>>

\* thread t calls dequeueJob from the closure's while loop
threadDequeue(t) ==
  /\ tpc[t] = "dequeue"
  /\ LET r == dequeueJob(mJobs, mQueuedAllJobs)
     IN /\ mJobs' = r.jobs
        /\ IF r.ret = "true"
           THEN /\ tjob' = [tjob EXCEPT ![t] = r.job]
                /\ dequeued' = Append(dequeued, r.job)
                /\ tpc' = [tpc EXCEPT ![t] = "work"]
                /\ UNCHANGED locals
           ELSE IF r.ret = "false"
           THEN /\ tpc' = [tpc EXCEPT ![t] = IF t = 0 THEN "join" ELSE "exited"]
                /\ locals' = IF t = 0 THEN [locals EXCEPT !.th = 0] ELSE locals
                /\ UNCHANGED <<tjob, dequeued>>
           ELSE /\ tpc' = [tpc EXCEPT ![t] = "wait"]
                /\ UNCHANGED <<tjob, dequeued, locals>>
  /\ UNCHANGED <<call, metadata, dest, status, mQueuedAllJobs, written, enqueued,
                 sampler, tone, edit, uhdr>>

\* mCv.wait_for returns, by notification or after its 100 ms, and the loop goes round
waitFor(t) ==
  /\ tpc[t] = "wait"
  /\ tpc' = [tpc EXCEPT ![t] = "dequeue"]
  /\ UNCHANGED <<call, metadata, dest, status, locals, mJobs, mQueuedAllJobs, tjob,
                 written, enqueued, dequeued, sampler, tone, edit, uhdr>>

\* thread t runs the pixel loops over the rows of its job
runJob(t) ==
  /\ tpc[t] = "work"
  /\ written' = [r \in DOMAIN written |->
                   IF tjob[t][1] <= r /\ r < tjob[t][2] THEN written[r] + 1 ELSE written[r]]
  /\ sampler' = IF call.fn = "applyGainMap" /\ tjob[t][1] < tjob[t][2]
                   /\ call.yuv420_image_ptr.width > 0
                THEN sampler \cup {sampleMapOverload(locals.map_scale_factor)}
                ELSE sampler
  /\ tpc' = [tpc EXCEPT ![t] = "dequeue"]
  /\ UNCHANGED <<call, metadata, dest, status, locals, mJobs, mQueuedAllJobs, tjob,
                 enqueued, dequeued, tone, edit, uhdr>>

\* std::for_each(..., t.join()): the caller joins the next worker once it has exited
joinWorker ==
  /\ tpc[0] = "join"
  /\ locals.th < workerCount(locals.threads)
  /\ tpc[locals.th + 1] = "exited"
  /\ locals' = [locals EXCEPT !.th = @ + 1]
  /\ UNCHANGED <<call, metadata, dest, status, mJobs, mQueuedAllJobs, tpc, tjob, written,
                 enqueued, dequeued, sampler, tone, edit, uhdr>>

\* every worker is joined: return ULTRAHDR_NO_ERROR
returnNoError ==
  /\ tpc[0] = "join"
  /\ ~(locals.th < workerCount(locals.threads))
  /\ status' = ULTRAHDR_NO_ERROR
  /\ tpc' = [tpc EXCEPT ![0] = "returned"]
  /\ UNCHANGED <<call, metadata, dest, locals, mJobs, mQueuedAllJobs, tjob, written,
                 enqueued, dequeued, sampler, tone, edit, uhdr>>


(***************************************************************************)
(* Inputs of the gain-map calls                                            *)
(***************************************************************************)
Call(fn, yuv, p010, gm, hdr_tf, sdr_is_601, output_format, max_display_boost, cores) ==
  [fn |-> fn, yuv420_image_ptr |-> yuv, p010_image_ptr |-> p010, gainmap_image_ptr |-> gm,
   hdr_tf |-> hdr_tf, sdr_is_601 |-> sdr_is_601, output_format |-> output_format,
   max_display_boost |-> max_display_boost, cores |-> cores]

\* a struct pointer that is null, or a struct whose luma or chroma pointer is null, or a good one
ImageVariants(width, height, colorGamut) ==
  {NullImage,
   Image(FALSE, "nullptr", "buf", width, height, colorGamut),
   Image(FALSE, "buf", "nullptr", width, height, colorGamut),
   Image(FALSE, "buf", "buf", width, height, colorGamut)}

\* gain-map image arguments: applyGainMap never reads the map's chroma pointer
MapVariants(width, height) ==
  {NullImage,
   Image(FALSE, "nullptr", "nullptr", width, height, "UNSPECIFIED"),
   Image(FALSE, "buf", "nullptr", width, height, "UNSPECIFIED")}

ApiSides == {2 * k : k \in 1 .. MaxApiUnits}
MapSides == 0 .. MaxApiUnits

\* what the caller's metadata struct may hold before generateGainMap fills it
PriorMetadata ==
  {Metadata(FALSE, "1", Rat(0, 1), Rat(0, 1), Rat(0, 1), Rat(0, 1), Rat(0, 1), Rat(0, 1),
            Rat(0, 1)),
   Metadata(FALSE, "9.9", Rat(3, 1), Rat(7, 1), Rat(22, 10), Rat(1, 2), Rat(1, 4),
            Rat(5, 1), Rat(2, 1))}

GoodMetadata ==
  {Metadata(FALSE, kGainMapVersion, Rat(kHlgMaxNits, kSdrWhiteNits), Rat(1, 1), Rat(1, 1),
            Rat(0, 1), Rat(0, 1), Rat(1, 1), Rat(kHlgMaxNits, kSdrWhiteNits)),
   Metadata(FALSE, kGainMapVersion, Rat(4, 1), Rat(1, 2), Rat(1, 1),
            Rat(0, 1), Rat(0, 1), Rat(2, 4), Rat(8, 2))}

\* metadata with one unsupported field each, and with all of them at once
BadMetadata ==
  LET good == Metadata(FALSE, kGainMapVersion, Rat(4, 1), Rat(1, 1), Rat(1, 1),
                       Rat(0, 1), Rat(0, 1), Rat(1, 1), Rat(4, 1))
  IN {[good EXCEPT !.version = "1"],
      [good EXCEPT !.gamma = Rat(22, 10)],
      [good EXCEPT !.offsetSdr = Rat(1, 64)],
      [good EXCEPT !.offsetHdr = Rat(1, 64)],
      [good EXCEPT !.hdrCapacityMin = Rat(2, 1)],
      [good EXCEPT !.hdrCapacityMax = Rat(3, 1)],
      Metadata(FALSE, "", Rat(4, 1), Rat(1, 1), Rat(1, 2), Rat(1, 64), Rat(1, 64),
               Rat(2, 1), Rat(3, 1))}

NoImage == NullImage

\* generateGainMap with every pointer good and everything else varied
GenerateArguments ==
  {<<Call("generateGainMap",
          Image(FALSE, "buf", "buf", w, h, gs),
          Image(FALSE, "buf", "buf", w + dw, h + dh, gh),
          NoImage, tf, sdr601, "SDR", Rat(1, 1), cores),
     md, Dest(FALSE, "nullptr", 0, 0)>> :
     w \in ApiSides, h \in ApiSides, dw \in {0, 2}, dh \in {0, 2},
     gs \in ColorGamuts, gh \in ColorGamuts, tf \in TransferFunctions,
     sdr601 \in {FALSE}, cores \in {1}, md \in PriorMetadata}

\* generateGainMap with some pointer null, alone and together with every later defect
GenerateNullArguments ==
  {<<Call("generateGainMap", yuv, p010, NoImage, tf, TRUE, "SDR", Rat(1, 1), 1), md, dst>> :
     yuv \in UNION {ImageVariants(8, 8, g) : g \in {"BT709", "UNSPECIFIED"}},
     p010 \in UNION {ImageVariants(w, 8, g) : w \in {8, 6}, g \in {"BT2100"}},
     tf \in {"HLG", "SRGB"},
     md \in {NullMetadata} \cup PriorMetadata,
     dst \in {Dest(TRUE, "nullptr", 0, 0), Dest(FALSE, "nullptr", 0, 0)}}

\* applyGainMap with every pointer good and everything else varied
ApplyArguments ==
  {<<Call("applyGainMap",
          Image(FALSE, "buf", "buf", w, h, "BT709"),
          NoImage,
          Image(FALSE, "buf", "nullptr", mw, mh, "UNSPECIFIED"),
          "UNSPECIFIED", FALSE, fmt, boost, cores),
     md, Dest(FALSE, "buf", 0, 0)>> :
     w \in ApiSides, h \in ApiSides, mw \in MapSides, mh \in MapSides,
     fmt \in {"HDR_LINEAR", "HDR_PQ"}, boost \in {Rat(4, 1)}, cores \in {1},
     md \in GoodMetadata \cup BadMetadata}

\* applyGainMap with some pointer null, alone and together with every later defect
ApplyNullArguments ==
  {<<Call("applyGainMap", yuv, NoImage, gm, "UNSPECIFIED", FALSE, "HDR_HLG", Rat(1, 1), 1),
     md, dst>> :
     yuv \in ImageVariants(8, 8, "P3"),
     gm \in UNION {MapVariants(mw, 2) : mw \in {2, 3}},
     md \in {NullMetadata} \cup GoodMetadata \cup BadMetadata,
     dst \in {Dest(TRUE, "nullptr", 0, 0), Dest(FALSE, "buf", 0, 0)}}

\* valid calls that exercise the scheduler: every thread count, several job counts
GenerateSchedulerArguments ==
  {<<Call("generateGainMap",
          Image(FALSE, "buf", "buf", 8, 8 * k, "BT709"),
          Image(FALSE, "buf", "buf", 8, 8 * k, "BT2100"),
          NoImage, "PQ", FALSE, "SDR", Rat(1, 1), cores),
     md, Dest(FALSE, "nullptr", 0, 0)>> :
     k \in 0 .. MaxHeightUnits, cores \in 1 .. MaxCores,
     md \in {Metadata(FALSE, "1", Rat(0, 1), Rat(0, 1), Rat(0, 1), Rat(0, 1), Rat(0, 1),
                      Rat(0, 1), Rat(0, 1))}}

ApplySchedulerArguments ==
  {<<Call("applyGainMap",
          Image(FALSE, "buf", "buf", 2 * scale, mh * scale, "BT709"),
          NoImage,
          Image(FALSE, "buf", "nullptr", 2, mh, "UNSPECIFIED"),
          "UNSPECIFIED", FALSE, "HDR_HLG", Rat(2, 1), cores),
     md, Dest(FALSE, "buf", 0, 0)>> :
     scale \in {1, 2}, mh \in 1 .. MaxMapRows, cores \in 1 .. MaxCores,
     md \in {Metadata(FALSE, kGainMapVersion, Rat(4, 1), Rat(1, 1), Rat(1, 1),
                      Rat(0, 1), Rat(0, 1), Rat(1, 1), Rat(4, 1))}}

ToneIdle == [pc |-> "idle"]
EditIdle == [pc |-> "idle"]

\* a null shared_ptr member; a populated member is a non-empty tuple that names
\* where its contents came from
Null == <<>>

\* the members of UltraHdr that hold the images and the metadata
Slots ==
  {"sdr_jpeg_img", "sdr_heif_img", "gain_map_jpeg_img", "sdr_raw_img", "hdr_raw_img",
   "gain_map_raw_img", "gain_map_metadata", "exif"}

\* the UltraHdr object after construction: every member is null.  fn, arg,
\* status and dest are the last call, its argument, what it returned and what
\* it left in dest;
\* raw_only says that every call so far was addImage(uncompressed);
\* while it holds, first_p010 and first_yuv420 name the first buffers of their
\* formats that were handed to addImage; rewritten holds the members
\* that the last call assigned while they were populated; and ran holds the
\* collaborators the last recorded call ran: decoder and toneMap in convert,
\* JpegR and libheif in addImage.
EmptyUltraHdr ==
  [sdr_jpeg_img |-> Null, sdr_heif_img |-> Null, gain_map_jpeg_img |-> Null,
   sdr_raw_img |-> Null, hdr_raw_img |-> Null, gain_map_raw_img |-> Null,
   gain_map_metadata |-> Null, exif |-> Null,
   fn |-> "none", arg |-> Null, status |-> "pending", dest |-> Null,
   rewritten |-> {}, ran |-> {}, raw_only |-> TRUE, first_p010 |-> Null,
   first_yuv420 |-> Null]

\* the state in which the caller is about to enter the call
InitCall(arguments) ==
  /\ \E a \in arguments : /\ call = a[1]
                          /\ metadata = a[2]
                          /\ dest = a[3]
  /\ status = "pending"
  /\ locals = NoLocals
  /\ mJobs = <<>>
  /\ mQueuedAllJobs = FALSE
  /\ tpc = [t \in Threads |-> IF t = 0 THEN "entry" ELSE "unborn"]
  /\ tjob = [t \in Threads |-> <<0, 0>>]
  /\ written = <<>>
  /\ enqueued = <<>>
  /\ dequeued = <<>>
  /\ sampler = {}
  /\ tone = ToneIdle
  /\ edit = EditIdle
  /\ uhdr = EmptyUltraHdr

SchedulerArguments == GenerateSchedulerArguments \cup ApplySchedulerArguments

InitGainMap ==
  InitCall(GenerateArguments \cup GenerateNullArguments \cup ApplyArguments
           \cup ApplyNullArguments \cup SchedulerArguments)

InitScheduler == InitCall(SchedulerArguments)

NextGainMap ==
  \/ generateGainMap
  \/ applyGainMap
  \/ spawnWorker
  \/ startEnqueue
  \/ enqueueNext
  \/ markQueueForEnd
  \/ \E t \in Threads : threadDequeue(t)
  \/ \E t \in Threads : waitFor(t)
  \/ \E t \in Threads : runJob(t)
  \/ joinWorker
  \/ returnNoError

SpecGainMap == InitGainMap /\ [][NextGainMap]_vars

\* every thread that can take a step eventually takes one: the OS schedules each
\* runnable thread, and wait_for returns after at most its timeout
FairScheduling ==
  /\ WF_vars(generateGainMap \/ applyGainMap \/ spawnWorker \/ startEnqueue \/ enqueueNext
             \/ markQueueForEnd \/ joinWorker \/ returnNoError)
  /\ \A t \in Threads : WF_vars(threadDequeue(t) \/ waitFor(t) \/ runJob(t))

SpecScheduler == InitScheduler /\ [][NextGainMap]_vars /\ FairScheduling


(***************************************************************************)
(* Properties of the job queue and the scheduler                           *)
(***************************************************************************)
IsGenerate == call.fn = "generateGainMap"
IsApply == call.fn = "applyGainMap"
Returned == tpc[0] = "returned"
Workers == Threads \ {0}

\* C1: dequeueJob never returns false while a job is queued or before markQueueForEnd
\* was called: a call returns false exactly when the queue is empty and the queue is
\* marked for end; with a job queued it removes the head job and returns it; with the
\* queue empty and not marked it blocks, leaving the queue as it is.
DequeueContract ==
  [][\A t \in Threads :
       (tpc[t] = "dequeue" /\ tpc'[t] # "dequeue") =>
         /\ (tpc'[t] \in {"exited", "join"}) <=> (mJobs = <<>> /\ mQueuedAllJobs)
         /\ (mJobs = <<>> /\ ~mQueuedAllJobs) => (tpc'[t] = "wait" /\ mJobs' = mJobs)
         /\ (mJobs # <<>>) =>
              (tpc'[t] = "work" /\ tjob'[t] = Head(mJobs) /\ mJobs' = Tail(mJobs))]_vars

\* a worker has seen dequeueJob return false while another thread still runs a job it
\* was handed, after a third had to wait on the empty, unmarked queue
DequeueContractWitness ==
  \E t, u, v \in Threads :
    /\ tpc[t] = "exited"
    /\ tpc[u] = "work"
    /\ tpc[v] = "wait"
    /\ Len(dequeued) >= 2

\* the rows the call has to produce: gain-map rows for the generator, image rows for the applier
OutputRows ==
  IF IsGenerate
  THEN call.yuv420_image_ptr.height \div 4
  ELSE call.yuv420_image_ptr.height

PastSpawn == tpc[0] \in {"enqueue", "dequeue", "wait", "work", "join"} \/ status = ULTRAHDR_NO_ERROR

\* C2: under every interleaving of the min(detectedCores,4) - 1 workers and the calling
\* thread, each enqueued job is handed to exactly one thread, the jobs are pairwise
\* disjoint and cover every output row, no row is written twice, and when the call
\* returns every row has been written.
RowsWrittenOnce ==
  /\ PastSpawn => Cardinality({t \in Workers : tpc[t] # "unborn"}) = Min(call.cores, 4) - 1
  /\ \A r \in DOMAIN written : written[r] <= 1
  /\ \A i \in 1 .. Len(enqueued) : enqueued[i][1] < enqueued[i][2]
  /\ \A i, j \in 1 .. Len(enqueued) : i < j => enqueued[i][2] <= enqueued[j][1]
  /\ Len(dequeued) <= Len(enqueued)
  /\ \A i \in 1 .. Len(dequeued) : dequeued[i] = enqueued[i]
  /\ status = ULTRAHDR_NO_ERROR =>
       /\ dequeued = enqueued
       /\ DOMAIN written = 0 .. OutputRows - 1
       /\ \A r \in 0 .. OutputRows - 1 :
            /\ written[r] = 1
            /\ Cardinality({i \in 1 .. Len(enqueued) :
                              enqueued[i][1] <= r /\ r < enqueued[i][2]}) = 1

\* a call with three workers returned after three different threads ran jobs
RowsWrittenOnceWitness ==
  /\ status = ULTRAHDR_NO_ERROR
  /\ Min(call.cores, 4) = 4
  /\ Len(enqueued) >= 3
  /\ Cardinality({t \in Threads : tjob[t] # <<0, 0>>}) >= 3

\* C3: under fair scheduling every call whose inputs pass validation runs to completion:
\* the enqueue loop ends, the queue is marked ended, every worker leaves its loop, every
\* join completes and the call returns NO_ERROR.
CallCompletes ==
  (tpc[0] = "spawn") ~>
     (/\ Returned
      /\ status = ULTRAHDR_NO_ERROR
      /\ mQueuedAllJobs
      /\ mJobs = <<>>
      /\ \A t \in Workers : tpc[t] \in {"unborn", "exited"})

\* a call with three workers and at least two jobs has returned, all workers joined
CallCompletesWitness ==
  /\ Returned
  /\ status = ULTRAHDR_NO_ERROR
  /\ locals.th = 3
  /\ Len(dequeued) >= 2
  /\ \A t \in 1 .. 3 : tpc[t] = "exited"


(***************************************************************************)
(* Properties of generateGainMap                                           *)
(***************************************************************************)
GenerateNull ==
  \/ call.yuv420_image_ptr.null
  \/ call.p010_image_ptr.null
  \/ metadata.null
  \/ dest.null
  \/ call.yuv420_image_ptr.data = "nullptr"
  \/ call.yuv420_image_ptr.chroma_data = "nullptr"
  \/ call.p010_image_ptr.data = "nullptr"
  \/ call.p010_image_ptr.chroma_data = "nullptr"

GenerateSizesDiffer ==
  \/ call.yuv420_image_ptr.width # call.p010_image_ptr.width
  \/ call.yuv420_image_ptr.height # call.p010_image_ptr.height

GenerateGamutUnspecified ==
  \/ call.yuv420_image_ptr.colorGamut = "UNSPECIFIED"
  \/ call.p010_image_ptr.colorGamut = "UNSPECIFIED"

\* C4: generateGainMap returns BadPointer for any null struct or null luma/chroma
\* pointer; otherwise ResolutionMismatch when the SDR and HDR sizes differ; otherwise
\* InvalidGamut when either gamut is UNSPECIFIED; otherwise InvalidTransfer when the
\* transfer function is none of LINEAR, HLG, PQ.
GenerateErrorOrder ==
  (IsGenerate /\ Returned) =>
    /\ GenerateNull => status = ERROR_ULTRAHDR_BAD_PTR
    /\ (~GenerateNull /\ GenerateSizesDiffer) => status = ERROR_ULTRAHDR_RESOLUTION_MISMATCH
    /\ (~GenerateNull /\ ~GenerateSizesDiffer /\ GenerateGamutUnspecified) =>
         status = ERROR_ULTRAHDR_INVALID_COLORGAMUT
    /\ (~GenerateNull /\ ~GenerateSizesDiffer /\ ~GenerateGamutUnspecified
        /\ call.hdr_tf \notin {"LINEAR", "HLG", "PQ"}) =>
         status = ERROR_ULTRAHDR_INVALID_TRANS_FUNC

\* a call whose sizes differ and whose gamut is unspecified and whose transfer function
\* is unknown has returned ResolutionMismatch
GenerateErrorOrderWitness ==
  /\ IsGenerate
  /\ Returned
  /\ ~GenerateNull
  /\ GenerateSizesDiffer
  /\ GenerateGamutUnspecified
  /\ call.hdr_tf = "SRGB"
  /\ status = ERROR_ULTRAHDR_RESOLUTION_MISMATCH

GenerateDimensions ==
  (/\ IsGenerate
   /\ status = ULTRAHDR_NO_ERROR
   /\ call.yuv420_image_ptr.width % 4 = 0
   /\ call.yuv420_image_ptr.height % 4 = 0) =>
    /\ dest.pixelFormat = "MONOCHROME"
    /\ dest.width * 4 = call.yuv420_image_ptr.width
    /\ dest.height * 4 = call.yuv420_image_ptr.height
    /\ dest.luma_stride * 4 = call.yuv420_image_ptr.width

\* an 8 x 4 image has been mapped
GenerateDimensionsWitness ==
  /\ IsGenerate
  /\ status = ULTRAHDR_NO_ERROR
  /\ call.yuv420_image_ptr.width = 8
  /\ call.yuv420_image_ptr.height = 4
  /\ dest.width = 2
  /\ dest.height = 1

(***************************************************************************)
(* Properties of applyGainMap                                              *)
(***************************************************************************)
ApplyNull ==
  \/ call.yuv420_image_ptr.null
  \/ call.gainmap_image_ptr.null
  \/ metadata.null
  \/ dest.null
  \/ call.yuv420_image_ptr.data = "nullptr"
  \/ call.yuv420_image_ptr.chroma_data = "nullptr"
  \/ call.gainmap_image_ptr.data = "nullptr"

ApplyUnsupportedMetadata ==
  \/ metadata.version # "1.0"
  \/ ~RatEq(metadata.gamma, Rat(1, 1))
  \/ ~RatEq(metadata.offsetSdr, Rat(0, 1))
  \/ ~RatEq(metadata.offsetHdr, Rat(0, 1))
  \/ ~RatEq(metadata.hdrCapacityMin, metadata.minContentBoost)
  \/ ~RatEq(metadata.hdrCapacityMax, metadata.maxContentBoost)

\* both divisors are non-zero, so that the remainders and ratios are defined
ApplyMapNonEmpty == call.gainmap_image_ptr.width > 0 /\ call.gainmap_image_ptr.height > 0

ApplyScaleNotInteger ==
  call.yuv420_image_ptr.width % call.gainmap_image_ptr.width # 0

ApplyScaleUnsupported ==
  \/ call.yuv420_image_ptr.width % call.gainmap_image_ptr.width # 0
  \/ call.yuv420_image_ptr.height % call.gainmap_image_ptr.height # 0
  \/ call.yuv420_image_ptr.width \div call.gainmap_image_ptr.width
       # call.yuv420_image_ptr.height \div call.gainmap_image_ptr.height

\* C7: applyGainMap returns BadPointer for any null struct or null SDR luma/chroma or
\* gain-map data pointer; otherwise BadMetadata for an unsupported version, gamma,
\* offset or HDR capacity; otherwise UnsupportedMapScaleFactor when a side of the image
\* is no multiple of the map's or the two ratios differ.
ApplyErrorOrder ==
  (IsApply /\ Returned) =>
    /\ ApplyNull => status = ERROR_ULTRAHDR_BAD_PTR
    /\ (~ApplyNull /\ ApplyUnsupportedMetadata) => status = ERROR_ULTRAHDR_BAD_METADATA
    /\ (~ApplyNull /\ ~ApplyUnsupportedMetadata /\ ApplyMapNonEmpty /\ ApplyScaleUnsupported)
         => status = ERROR_ULTRAHDR_UNSUPPORTED_MAP_SCALE_FACTOR

\* a call with unsupported metadata and a non-integer scale has returned BadMetadata
ApplyErrorOrderWitness ==
  /\ IsApply
  /\ Returned
  /\ ~ApplyNull
  /\ ApplyUnsupportedMetadata
  /\ ApplyMapNonEmpty
  /\ ApplyScaleUnsupported
  /\ status = ERROR_ULTRAHDR_BAD_METADATA

\* C8 as stated: a gain map whose scale factor is not an integer is applied with
\* bilinear sampling and the call succeeds with the output sized like the SDR image.
ApplyNonIntegerScaleSucceeds ==
  (/\ IsApply
   /\ Returned
   /\ ~ApplyNull
   /\ ~ApplyUnsupportedMetadata
   /\ call.gainmap_image_ptr.width > 0
   /\ ApplyScaleNotInteger) =>
    /\ status = ULTRAHDR_NO_ERROR
    /\ sampler = {"bilinear"}
    /\ dest.width = call.yuv420_image_ptr.width
    /\ dest.height = call.yuv420_image_ptr.height

\* C8 amended: a gain map whose scale factor is not an integer is rejected with
\* UnsupportedMapScaleFactor before any row is scheduled or sampled; whenever
\* applyGainMap succeeds the scale factor is an integer, no pixel is sampled with the
\* bilinear overload, and the output width and height are those of the SDR image.
ApplyNonIntegerScaleRejected ==
  /\ (/\ IsApply
      /\ Returned
      /\ ~ApplyNull
      /\ ~ApplyUnsupportedMetadata
      /\ call.gainmap_image_ptr.width > 0
      /\ ApplyScaleNotInteger) =>
       /\ status = ERROR_ULTRAHDR_UNSUPPORTED_MAP_SCALE_FACTOR
       /\ sampler = {}
       /\ enqueued = <<>>
  /\ (IsApply /\ status = ULTRAHDR_NO_ERROR) =>
       /\ ~ApplyScaleNotInteger
       /\ "bilinear" \notin sampler
       /\ dest.width = call.yuv420_image_ptr.width
       /\ dest.height = call.yuv420_image_ptr.height

\* a call with good pointers and metadata and a 6-wide image over a 4-wide map returned
ApplyNonIntegerScaleWitness ==
  /\ IsApply
  /\ Returned
  /\ ~ApplyNull
  /\ ~ApplyUnsupportedMetadata
  /\ call.yuv420_image_ptr.width = 6
  /\ call.gainmap_image_ptr.width = 4
  /\ call.gainmap_image_ptr.height = 4
  /\ call.yuv420_image_ptr.height = 6
  /\ status = ERROR_ULTRAHDR_UNSUPPORTED_MAP_SCALE_FACTOR


(***************************************************************************)
(* Flat pixel memory                                                       *)
(***************************************************************************)
\* a buffer of `size` elements that nobody has written yet
Uninitialized(size) == [i \in 0 .. size - 1 |-> 170]

\* memset(mem + start, value, n)
memset(mem, start, value, n) ==
  [i \in DOMAIN mem |-> IF start <= i /\ i < start + n THEN value ELSE mem[i]]

\* memcpy(dst + d, src + s, n)
memcpy(dst, d, src, s, n) ==
  [i \in DOMAIN dst |-> IF d <= i /\ i < d + n THEN src[s + (i - d)] ELSE dst[i]]

\* no gain-map call is in progress
NoCall == [fn |-> "none"]

InitNoCall ==
  /\ call = NoCall
  /\ metadata = NullMetadata
  /\ dest = Dest(TRUE, "nullptr", 0, 0)
  /\ status = "pending"
  /\ locals = NoLocals
  /\ mJobs = <<>>
  /\ mQueuedAllJobs = FALSE
  /\ tpc = [t \in Threads |-> IF t = 0 THEN "entry" ELSE "unborn"]
  /\ tjob = [t \in Threads |-> <<0, 0>>]
  /\ written = <<>>
  /\ enqueued = <<>>
  /\ dequeued = <<>>
  /\ sampler = {}
  /\ uhdr = EmptyUltraHdr

(***************************************************************************)
(* UltraHdr::toneMap                                                       *)
(***************************************************************************)
MaxToneUnits == 2      \* tone mapper: image sides 2*k, k in 1..MaxToneUnits
MaxTonePad == 2        \* tone mapper: destination strides exceed the row by 0..MaxTonePad
MaxToneSeeds == 2      \* tone mapper: source contents, one per seed in 0..MaxToneSeeds

\* (y_uint >> 2) & 0xff of the uint16_t y_uint = v >> 6, without the second shift
toneMapSampleNoShift(v) == ((v \div 64) % 65536) % 256

\* static_cast<uint8_t>((y_uint >> 2) & 0xff) with uint16_t y_uint = v >> 6
toneMapSample(v) == (((v \div 64) % 65536) \div 4) % 256

\* the inner luma loop of row y, from column x
RECURSIVE toneMapLumaPixels(_, _, _, _, _, _)
toneMapLumaPixels(src, dst, src_y_data, dst_y_data, y, x) ==
  IF x >= src.width THEN dst_y_data
  ELSE toneMapLumaPixels(src, dst, src_y_data,
         [dst_y_data EXCEPT ![y * dst.luma_stride + x] =
            toneMapSample(src_y_data[y * src.luma_stride + x])],
         y, x + 1)

\* the outer luma loop, from row y
RECURSIVE toneMapLuma(_, _, _, _, _)
toneMapLuma(src, dst, src_y_data, dst_y_data, y) ==
  IF y >= src.height THEN dst_y_data
  ELSE LET pixels == toneMapLumaPixels(src, dst, src_y_data, dst_y_data, y, 0)
           padded == IF dst.width # dst.luma_stride
                     THEN memset(pixels, y * dst.luma_stride + dst.width, 0,
                                 dst.luma_stride - dst.width)
                     ELSE pixels
       IN toneMapLuma(src, dst, src_y_data, padded, y + 1)

\* dst_v_data - dst_u_data
dst_v_offset(dst) == (dst.chroma_stride * dst.height) \div 2

\* the inner chroma loop of row y, from column x
RECURSIVE toneMapChromaPixels(_, _, _, _, _, _)
toneMapChromaPixels(src, dst, src_uv_data, dst_u_data, y, x) ==
  IF x >= src.width \div 2 THEN dst_u_data
  ELSE LET u_uint == src_uv_data[y * src.chroma_stride + 2 * x]
           v_uint == src_uv_data[y * src.chroma_stride + 2 * x + 1]
           u_row == y * dst.chroma_stride
           v_row == dst_v_offset(dst) + y * dst.chroma_stride
       IN toneMapChromaPixels(src, dst, src_uv_data,
            [dst_u_data EXCEPT ![u_row + x] = toneMapSample(u_uint),
                               ![v_row + x] = toneMapSample(v_uint)],
            y, x + 1)

\* the outer chroma loop, from row y
RECURSIVE toneMapChroma(_, _, _, _, _)
toneMapChroma(src, dst, src_uv_data, dst_u_data, y) ==
  IF y >= src.height \div 2 THEN dst_u_data
  ELSE LET pixels == toneMapChromaPixels(src, dst, src_uv_data, dst_u_data, y, 0)
           u_row == y * dst.chroma_stride
           v_row == dst_v_offset(dst) + y * dst.chroma_stride
           pad == dst.chroma_stride - dst.width \div 2
           padded == IF dst.width \div 2 # dst.chroma_stride
                     THEN memset(memset(pixels, u_row + dst.width \div 2, 0, pad),
                                 v_row + dst.width \div 2, 0, pad)
                     ELSE pixels
       IN toneMapChroma(src, dst, src_uv_data, padded, y + 1)

toneMap ==
  /\ tone.pc = "entry"
  /\ LET src == tone.src
         dst == tone.dest
     IN IF src.null \/ dst.null
        THEN tone' = [tone EXCEPT !.pc = "returned", !.status = ERROR_ULTRAHDR_BAD_PTR]
        ELSE IF src.width # dst.width \/ src.height # dst.height
        THEN tone' = [tone EXCEPT !.pc = "returned",
                                  !.status = ERROR_ULTRAHDR_RESOLUTION_MISMATCH]
        ELSE tone' = [tone EXCEPT
                        !.pc = "returned",
                        !.dst_y_data = toneMapLuma(src, dst, tone.src_y_data, @, 0),
                        !.dst_u_data = toneMapChroma(src, dst, tone.src_uv_data, @, 0),
                        !.dest = [dst EXCEPT !.colorGamut = src.colorGamut],
                        !.status = ULTRAHDR_NO_ERROR]
  /\ UNCHANGED <<gmVars, edit, uhdr>>

\* an ultrahdr_uncompressed_struct* argument of toneMap
Plane(null, width, height, luma_stride, chroma_stride, colorGamut) ==
  [null |-> null, width |-> width, height |-> height, luma_stride |-> luma_stride,
   chroma_stride |-> chroma_stride, colorGamut |-> colorGamut]

\* word k of a P010 plane
P010Word(seed, k) == (21845 * seed + 63 + 4099 * k) % 65536

ToneSides == {2 * k : k \in 1 .. MaxToneUnits}

\* a toneMap call as its callers set it up: the P010 strides are at least the width,
\* the destination luma stride is at least the width and its chroma stride at least
\* half of it; the planes are allocated for their strides
ToneCall(src, dst, seed) ==
  [pc |-> "entry", src |-> src, dest |-> dst, status |-> "pending",
   src_y_data |-> [k \in 0 .. src.luma_stride * src.height - 1 |-> P010Word(seed, k)],
   src_uv_data |-> [k \in 0 .. src.chroma_stride * (src.height \div 2) - 1 |->
                      P010Word(seed + 1, k)],
   dst_y_data |-> Uninitialized(dst.luma_stride * dst.height),
   dst_u_data |-> Uninitialized(2 * dst_v_offset(dst))]

ToneArguments ==
  {ToneCall(Plane(FALSE, w, h, w + sp, w + sp, "BT2100"),
            Plane(FALSE, w, h, w + lp, w \div 2 + cp, "UNSPECIFIED"), seed) :
     w \in ToneSides, h \in ToneSides, sp \in {0, 2}, lp \in 0 .. MaxTonePad,
     cp \in 0 .. MaxTonePad, seed \in 0 .. MaxToneSeeds}

ToneRejectedArguments ==
  {ToneCall(Plane(sn, w, h, w, w, "BT2100"),
            Plane(dn, w + dw, h + dh, w + dw, (w + dw) \div 2, "UNSPECIFIED"), 0) :
     w \in ToneSides, h \in ToneSides, sn \in BOOLEAN, dn \in BOOLEAN,
     dw \in {0, 2}, dh \in {0, 2}}

InitToneMap ==
  /\ InitNoCall
  /\ tone \in ToneArguments \cup ToneRejectedArguments
  /\ edit = EditIdle

NextToneMap == toneMap

SpecToneMap == InitToneMap /\ [][NextToneMap]_vars

(***************************************************************************)
(* Properties of toneMap                                                   *)
(***************************************************************************)
ToneMapped == tone.pc = "returned" /\ tone.status = ULTRAHDR_NO_ERROR

\* C9: for every 16-bit word v of the P010 luma plane and of the interleaved chroma
\* plane toneMap writes ((v >> 6) >> 2) & 0xff, which is the high 8 bits of v; U comes
\* from the even and V from the odd chroma word of each pair; every byte between width
\* and stride of the destination luma, U and V rows is zero.
ToneMapHighByte ==
  ToneMapped =>
    LET src == tone.src
        dst == tone.dest
    IN /\ \A y \in 0 .. src.height - 1 :
            /\ \A x \in 0 .. src.width - 1 :
                 LET v == tone.src_y_data[y * src.luma_stride + x]
                 IN /\ tone.dst_y_data[y * dst.luma_stride + x] = ((v \div 64) \div 4) % 256
                    /\ tone.dst_y_data[y * dst.luma_stride + x] = v \div 256
            /\ \A x \in dst.width .. dst.luma_stride - 1 :
                 tone.dst_y_data[y * dst.luma_stride + x] = 0
       /\ \A y \in 0 .. src.height \div 2 - 1 :
            /\ \A x \in 0 .. src.width \div 2 - 1 :
                 LET u == tone.src_uv_data[y * src.chroma_stride + 2 * x]
                     v == tone.src_uv_data[y * src.chroma_stride + 2 * x + 1]
                     u_out == tone.dst_u_data[y * dst.chroma_stride + x]
                     v_out == tone.dst_u_data[(dst.chroma_stride * dst.height) \div 2
                                              + y * dst.chroma_stride + x]
                 IN /\ u_out = ((u \div 64) \div 4) % 256
                    /\ u_out = u \div 256
                    /\ v_out = ((v \div 64) \div 4) % 256
                    /\ v_out = v \div 256
            /\ \A x \in dst.width \div 2 .. dst.chroma_stride - 1 :
                 /\ tone.dst_u_data[y * dst.chroma_stride + x] = 0
                 /\ tone.dst_u_data[(dst.chroma_stride * dst.height) \div 2
                                    + y * dst.chroma_stride + x] = 0

\* a 4 x 2 image has been mapped into a destination whose luma and chroma rows are
\* padded, from words whose low bits are set and whose U and V differ
ToneMapHighByteWitness ==
  /\ ToneMapped
  /\ tone.src.width = 4
  /\ tone.src.height = 2
  /\ tone.dest.luma_stride > tone.dest.width
  /\ tone.dest.chroma_stride > tone.dest.width \div 2
  /\ tone.src_y_data[1] % 64 # 0
  /\ tone.src_y_data[1] >= 16384
  /\ tone.dst_y_data[1] >= 64
  /\ tone.dst_u_data[0] # tone.dst_u_data[dst_v_offset(tone.dest)]
  /\ tone.dest.colorGamut = "BT2100"


(***************************************************************************)
(* crop (editorhelper.cpp)                                                 *)
(*                                                                         *)
(* in_img->data and out_img->data are flat memories; a non-null            *)
(* chroma_data points chroma_offset bytes into the same allocation.  The   *)
(* V plane of a YUV 4:2:0 image follows its U plane at                     *)
(* chroma_stride * (height / 2).                                           *)
(***************************************************************************)
MaxEditUnits == 2      \* editor: image sides 2*k, k in 1..MaxEditUnits

PixelFormats == {"YUV420", "MONOCHROME", "P010"}

\* what a build does on a memcpy whose size_t length is a converted negative int
UndefinedCopyOutcomes == {"SIGSEGV", ULTRAHDR_NO_ERROR}

cropStatus(in_img, out_img, left, right, top, bottom) ==
  IF in_img.null \/ in_img.data = "nullptr" \/ out_img.null \/ out_img.data = "nullptr"
  THEN ERROR_ULTRAHDR_BAD_PTR
  ELSE IF left < 0 \/ right >= in_img.width \/ top < 0 \/ bottom >= in_img.height
  THEN ERROR_ULTRAHDR_INVALID_CROPPING_PARAMETERS
  ELSE IF in_img.pixelFormat # "YUV420" /\ in_img.pixelFormat # "MONOCHROME"
  THEN ERROR_ULTRAHDR_UNSUPPORTED_FEATURE
  ELSE ULTRAHDR_NO_ERROR

in_luma_stride(in_img) == IF in_img.luma_stride # 0 THEN in_img.luma_stride ELSE in_img.width

in_chroma_stride(in_img) ==
  IF in_img.chroma_stride # 0 THEN in_img.chroma_stride ELSE in_luma_stride(in_img) \div 2

\* in_img->chroma_data - in_img->data, with the fallback for a null chroma_data
in_chroma_offset(in_img) ==
  IF in_img.chroma_data = "nullptr" THEN in_luma_stride(in_img) * in_img.height
  ELSE in_img.chroma_offset

\* the descriptor crop leaves in *out_img
cropDescriptor(in_img, out_img, left, right, top, bottom) ==
  LET luma == [out_img EXCEPT !.colorGamut = in_img.colorGamut,
                              !.pixelFormat = in_img.pixelFormat,
                              !.width = right - left + 1,
                              !.height = bottom - top + 1,
                              !.luma_stride = right - left + 1]
  IN IF in_img.pixelFormat = "MONOCHROME" THEN luma
     ELSE [luma EXCEPT !.chroma_stride = luma.luma_stride \div 2,
                       !.chroma_data = "buf",
                       !.chroma_offset = luma.luma_stride * luma.height]

\* the luma row loop, from row i
RECURSIVE cropLuma(_, _, _, _, _, _)
cropLuma(in_img, out, in_data, out_data, src, i) ==
  IF i >= out.height THEN out_data
  ELSE cropLuma(in_img, out, in_data,
                memcpy(out_data, i * out.luma_stride,
                       in_data, src + i * in_luma_stride(in_img), out.width),
                src, i + 1)

\* the chroma row loop, from row i
RECURSIVE cropChroma(_, _, _, _, _, _)
cropChroma(in_img, out, in_data, out_data, src, i) ==
  IF i >= out.height THEN out_data
  ELSE cropChroma(in_img, out, in_data,
                  memcpy(out_data, out.chroma_offset + i * out.chroma_stride,
                         in_data, src + i * in_chroma_stride(in_img), out.width \div 2),
                  src, i + 1)

\* the bytes crop leaves in out_img->data
cropData(in_img, out, in_data, out_data, left, top) ==
  LET luma == cropLuma(in_img, out, in_data, out_data,
                       in_luma_stride(in_img) * top + left, 0)
  IN IF in_img.pixelFormat = "MONOCHROME" THEN luma
     ELSE cropChroma(in_img, out, in_data, luma,
                     in_chroma_offset(in_img) + in_chroma_stride(in_img) * (top \div 2)
                       + left \div 2, 0)

crop ==
  /\ edit.pc = "entry"
  /\ edit.op = "crop"
  /\ LET in_img == edit.in_img
         st == cropStatus(in_img, edit.out_img, edit.left, edit.right, edit.top, edit.bottom)
         out == cropDescriptor(in_img, edit.out_img, edit.left, edit.right, edit.top,
                               edit.bottom)
     IN IF st # ULTRAHDR_NO_ERROR
        THEN edit' = [edit EXCEPT !.pc = "returned", !.status = st]
        ELSE IF out.width < 0 /\ out.height > 0
        THEN \E outcome \in UndefinedCopyOutcomes :
               edit' = [edit EXCEPT !.pc = "returned", !.status = outcome, !.out_img = out,
                                    !.defined = FALSE]
        ELSE edit' = [edit EXCEPT
                        !.pc = "returned",
                        !.status = st,
                        !.out_img = out,
                        !.out_data = cropData(in_img, out, edit.in_data, @, edit.left,
                                              edit.top)]
  /\ UNCHANGED <<gmVars, tone, uhdr>>

\* an ultrahdr_uncompressed_struct* argument of the editor
Picture(null, data, width, height, luma_stride, chroma_offset, chroma_stride, pixelFormat) ==
  [null |-> null, data |-> data, width |-> width, height |-> height,
   luma_stride |-> luma_stride,
   chroma_data |-> IF chroma_offset = 0 THEN "nullptr" ELSE "buf",
   chroma_offset |-> chroma_offset,
   chroma_stride |-> chroma_stride, pixelFormat |-> pixelFormat, colorGamut |-> "BT709"]

\* the output struct as its owner declares it, with data pointing to a fresh buffer
OutPicture(null, data) ==
  [null |-> null, data |-> data, width |-> 0, height |-> 0, luma_stride |-> 0,
   chroma_data |-> "nullptr", chroma_offset |-> 0, chroma_stride |-> 0,
   pixelFormat |-> "UNSPECIFIED", colorGamut |-> "UNSPECIFIED"]

\* number of bytes of the image in_img->data points to
PictureSize(in_img) ==
  IF in_img.pixelFormat = "MONOCHROME" THEN in_luma_stride(in_img) * in_img.height
  ELSE in_chroma_offset(in_img) + in_chroma_stride(in_img) * 2 * (in_img.height \div 2)

\* number of bytes the caller allocates for the cropped image
CropSize(in_img, left, right, top, bottom) ==
  LET size == (bottom - top + 1) * (right - left + 1)
      bytes == IF in_img.pixelFormat = "MONOCHROME" THEN size ELSE (size * 3) \div 2
  IN IF bytes < 0 THEN 0 ELSE bytes

CropCall(in_img, out_img, left, right, top, bottom) ==
  [pc |-> "entry", op |-> "crop", in_img |-> in_img, out_img |-> out_img,
   left |-> left, right |-> right, top |-> top, bottom |-> bottom,
   status |-> "pending", defined |-> TRUE,
   in_data |-> [k \in 0 .. PictureSize(in_img) - 1 |-> (k + 1) % 256],
   out_data |-> Uninitialized(CropSize(in_img, left, right, top, bottom))]

EditSides == {2 * k : k \in 1 .. MaxEditUnits}

\* the images handed to the editor: tightly packed, or with padded rows and a
\* separate chroma pointer
Pictures ==
  {Picture(FALSE, "buf", w, h, 0, 0, 0, fmt) :
     w \in EditSides, h \in EditSides, fmt \in PixelFormats}
  \cup
  {Picture(FALSE, "buf", w, h, w + 2, (w + 2) * h + 1, w \div 2 + 1, "YUV420") :
     w \in EditSides, h \in EditSides}

CropArguments ==
  {CropCall(p, OutPicture(FALSE, "buf"), l, r, t, b) :
     p \in Pictures, l \in -1 .. MaxEditUnits * 2, r \in -1 .. MaxEditUnits * 2,
     t \in -1 .. MaxEditUnits * 2, b \in -1 .. MaxEditUnits * 2}

CropNullArguments ==
  {CropCall(Picture(n[1], n[2], 4, 4, 0, 0, 0, "YUV420"), OutPicture(n[3], n[4]),
            0, 3, 0, 3) :
     n \in {<<TRUE, "nullptr", FALSE, "buf">>, <<FALSE, "nullptr", FALSE, "buf">>,
            <<FALSE, "buf", TRUE, "nullptr">>, <<FALSE, "buf", FALSE, "nullptr">>}}

InitCrop ==
  /\ InitNoCall
  /\ tone = ToneIdle
  /\ edit \in CropArguments \cup CropNullArguments

NextCrop == crop

SpecCrop == InitCrop /\ [][NextCrop]_vars

(***************************************************************************)
(* Properties of crop                                                      *)
(***************************************************************************)
\* crop has returned from a call on a YUV 4:2:0 image with a rectangle inside it
CroppedYuv ==
  /\ edit.pc = "returned"
  /\ edit.op = "crop"
  /\ ~edit.in_img.null
  /\ edit.in_img.data # "nullptr"
  /\ ~edit.out_img.null
  /\ edit.out_img.data # "nullptr"
  /\ edit.in_img.pixelFormat = "YUV420"
  /\ 0 <= edit.left /\ edit.left <= edit.right /\ edit.right < edit.in_img.width
  /\ 0 <= edit.top /\ edit.top <= edit.bottom /\ edit.bottom < edit.in_img.height

\* sample [i][j] of the planes of the input image
InY(i, j) == edit.in_data[i * in_luma_stride(edit.in_img) + j]
InU(i, j) ==
  edit.in_data[in_chroma_offset(edit.in_img) + i * in_chroma_stride(edit.in_img) + j]
InV(i, j) ==
  edit.in_data[in_chroma_offset(edit.in_img)
               + in_chroma_stride(edit.in_img) * (edit.in_img.height \div 2)
               + i * in_chroma_stride(edit.in_img) + j]

\* sample [i][j] of the planes of the output image
OutY(i, j) == edit.out_data[i * edit.out_img.luma_stride + j]
OutU(i, j) == edit.out_data[edit.out_img.chroma_offset + i * edit.out_img.chroma_stride + j]
OutV(i, j) ==
  edit.out_data[edit.out_img.chroma_offset
                + edit.out_img.chroma_stride * (edit.out_img.height \div 2)
                + i * edit.out_img.chroma_stride + j]

\* the size of the output and its luma plane are those of the rectangle
CropExactY ==
  CroppedYuv =>
    /\ edit.status = ULTRAHDR_NO_ERROR
    /\ edit.out_img.width = edit.right - edit.left + 1
    /\ edit.out_img.height = edit.bottom - edit.top + 1
    /\ edit.out_img.chroma_stride = edit.out_img.width \div 2
    /\ \A i \in 0 .. edit.out_img.height - 1 : \A j \in 0 .. edit.out_img.width - 1 :
         OutY(i, j) = InY(edit.top + i, edit.left + j)

\* the U plane of the output is that of the rectangle
CropExactU ==
  CroppedYuv =>
    \A i \in 0 .. edit.out_img.height \div 2 - 1 :
      \A j \in 0 .. edit.out_img.width \div 2 - 1 :
        OutU(i, j) = InU(edit.top \div 2 + i, edit.left \div 2 + j)

\* the V plane of the output is that of the rectangle
CropExactV ==
  CroppedYuv =>
    \A i \in 0 .. edit.out_img.height \div 2 - 1 :
      \A j \in 0 .. edit.out_img.width \div 2 - 1 :
        OutV(i, j) = InV(edit.top \div 2 + i, edit.left \div 2 + j)

\* C10: crop(l, r, t, b) on a YUV 4:2:0 image is exact on every plane: the output is
\* (r-l+1) x (b-t+1), output luma [i][j] is input luma [t+i][l+j], output U [i][j] is
\* input U [t/2+i][l/2+j], output V [i][j] is input V [t/2+i][l/2+j], and the output
\* chroma stride is the output width / 2.
CropExact == CropExactY /\ CropExactU /\ CropExactV

\* the upper half of a tightly packed 4 x 4 image has been cropped, and the first V
\* sample of the output is the first sample of the second U row of the input
CropExactWitness ==
  /\ CroppedYuv
  /\ edit.status = ULTRAHDR_NO_ERROR
  /\ edit.in_img.width = 4 /\ edit.in_img.height = 4
  /\ edit.in_img.luma_stride = 0
  /\ edit.left = 0 /\ edit.right = 3 /\ edit.top = 0 /\ edit.bottom = 1
  /\ OutV(0, 0) = InU(1, 0)
  /\ OutV(0, 0) # InV(0, 0)


\* crop has returned from a call with live pointers
CropReturned ==
  /\ edit.pc = "returned"
  /\ edit.op = "crop"
  /\ ~edit.in_img.null
  /\ edit.in_img.data # "nullptr"
  /\ ~edit.out_img.null
  /\ edit.out_img.data # "nullptr"

\* 0 <= l <= r < W and 0 <= t <= b < H
CropRectangleValid ==
  /\ 0 <= edit.left /\ edit.left <= edit.right /\ edit.right < edit.in_img.width
  /\ 0 <= edit.top /\ edit.top <= edit.bottom /\ edit.bottom < edit.in_img.height

\* C11: crop succeeds only when 0 <= l <= r < W and 0 <= t <= b < H; for every other
\* rectangle, l > r and t > b included, it returns InvalidCropping.
CropRejectsRectangle ==
  CropReturned =>
    /\ edit.status = ULTRAHDR_NO_ERROR => CropRectangleValid
    /\ ~CropRectangleValid => edit.status = ERROR_ULTRAHDR_INVALID_CROPPING_PARAMETERS

\* crop(2, 1, 0, 1) on a 4 x 4 YUV 4:2:0 image has returned NO_ERROR with an image of
\* width 0
CropRejectsRectangleWitness ==
  /\ CropReturned
  /\ edit.in_img.pixelFormat = "YUV420"
  /\ edit.in_img.width = 4 /\ edit.in_img.height = 4
  /\ edit.left = 2 /\ edit.right = 1 /\ edit.top = 0 /\ edit.bottom = 1
  /\ edit.status = ULTRAHDR_NO_ERROR
  /\ edit.defined
  /\ edit.out_img.width = 0


(***************************************************************************)
(* mirror, rotate and resize (editorhelper.cpp)                            *)
(***************************************************************************)
MirrorDirections == {"VERTICAL", "HORIZONTAL"}

\* for (i < rows) for (j < cols) *(mem + base + i * stride + j) = src[i, j]:
\* byte k keeps the store of the last row i that reaches it
StorePlane(mem, base, stride, rows, cols, src) ==
  [k \in DOMAIN mem |->
     LET d == k - base
         i == IF stride > 0 THEN Min(rows - 1, d \div stride) ELSE rows - 1
     IN IF d >= 0 /\ rows > 0 /\ d - i * stride < cols THEN src[i, d - i * stride]
        ELSE mem[k]]

\* the null and pixel-format checks shared by mirror and resize
editStatus(in_img, out_img) ==
  IF in_img.null \/ in_img.data = "nullptr" \/ out_img.null \/ out_img.data = "nullptr"
  THEN ERROR_ULTRAHDR_BAD_PTR
  ELSE IF in_img.pixelFormat # "YUV420" /\ in_img.pixelFormat # "MONOCHROME"
  THEN ERROR_ULTRAHDR_UNSUPPORTED_FEATURE
  ELSE ULTRAHDR_NO_ERROR

\* the fields an effect leaves in *out_img for the given size and luma stride
editDescriptor(in_img, out_img, width, height, luma_stride) ==
  LET luma == [out_img EXCEPT !.colorGamut = in_img.colorGamut,
                              !.pixelFormat = in_img.pixelFormat,
                              !.width = width,
                              !.height = height,
                              !.luma_stride = luma_stride]
  IN IF in_img.pixelFormat = "MONOCHROME" THEN luma
     ELSE [luma EXCEPT !.chroma_stride = luma_stride \div 2,
                       !.chroma_data = "buf",
                       !.chroma_offset = luma_stride * height]

\* the index sets of the luma samples and of the samples of a chroma plane of out
LumaIndex(out) == (0 .. out.height - 1) \X (0 .. out.width - 1)
ChromaIndex(out) == (0 .. out.height \div 2 - 1) \X (0 .. out.width \div 2 - 1)

\* the luma, U and V stores of an effect whose source sample of output [i][j] is
\* in_data[srcY[i, j]] on the luma plane and src[srcC[i, j]] on a chroma plane
editData(in_img, out, in_data, out_data, srcY, srcC) ==
  LET src_u == in_chroma_offset(in_img)
      src_v == src_u + in_chroma_stride(in_img) * (in_img.height \div 2)
      dest_u == out.chroma_offset
      dest_v == dest_u + out.chroma_stride * (out.height \div 2)
      luma == StorePlane(out_data, 0, out.luma_stride, out.height, out.width,
                         [<<i, j>> \in LumaIndex(out) |-> in_data[srcY[i, j]]])
      u == StorePlane(luma, dest_u, out.chroma_stride, out.height \div 2, out.width \div 2,
                      [<<i, j>> \in ChromaIndex(out) |-> in_data[src_u + srcC[i, j]]])
  IN IF in_img.pixelFormat = "MONOCHROME" THEN luma
     ELSE StorePlane(u, dest_v, out.chroma_stride, out.height \div 2, out.width \div 2,
                     [<<i, j>> \in ChromaIndex(out) |-> in_data[src_v + srcC[i, j]]])

mirrorDescriptor(in_img, out_img) ==
  editDescriptor(in_img, out_img, in_img.width, in_img.height, in_luma_stride(in_img))

\* a variant of mirrorData that copies the rows in place
mirrorDataNoFlip(in_img, out, in_data, out_data, mirror_dir) ==
  editData(in_img, out, in_data, out_data,
           [<<i, j>> \in LumaIndex(out) |->
                   i * in_luma_stride(in_img) + j],
           [<<i, j>> \in ChromaIndex(out) |->
                   i * in_chroma_stride(in_img) + j])

\* the bytes mirror leaves in out_img->data
mirrorData(in_img, out, in_data, out_data, mirror_dir) ==
  IF mirror_dir = "VERTICAL"
  THEN editData(in_img, out, in_data, out_data,
                [<<i, j>> \in LumaIndex(out) |->
                   (out.height - i - 1) * in_luma_stride(in_img) + j],
                [<<i, j>> \in ChromaIndex(out) |->
                   (out.height \div 2 - i - 1) * in_chroma_stride(in_img) + j])
  ELSE editData(in_img, out, in_data, out_data,
                [<<i, j>> \in LumaIndex(out) |->
                   i * in_luma_stride(in_img) + (in_img.width - j - 1)],
                [<<i, j>> \in ChromaIndex(out) |->
                   i * in_chroma_stride(in_img) + (in_img.width \div 2 - j - 1)])

mirror ==
  /\ edit.pc = "entry"
  /\ edit.op = "mirror"
  /\ LET st == editStatus(edit.in_img, edit.out_img)
         out == mirrorDescriptor(edit.in_img, edit.out_img)
     IN IF st # ULTRAHDR_NO_ERROR
        THEN edit' = [edit EXCEPT !.pc = "returned", !.status = st]
        ELSE edit' = [edit EXCEPT
                        !.pc = "returned",
                        !.status = st,
                        !.out_img = out,
                        !.out_data = mirrorData(edit.in_img, out, edit.in_data, @,
                                                edit.mirror_dir)]
  /\ UNCHANGED <<gmVars, tone, uhdr>>

rotateStatus(in_img, out_img, clockwise_degree) ==
  IF in_img.null \/ in_img.data = "nullptr" \/ out_img.null \/ out_img.data = "nullptr"
  THEN ERROR_ULTRAHDR_BAD_PTR
  ELSE IF clockwise_degree # 90 /\ clockwise_degree # 180 /\ clockwise_degree # 270
  THEN ERROR_ULTRAHDR_INVALID_CROPPING_PARAMETERS
  ELSE IF in_img.pixelFormat # "YUV420" /\ in_img.pixelFormat # "MONOCHROME"
  THEN ERROR_ULTRAHDR_UNSUPPORTED_FEATURE
  ELSE ULTRAHDR_NO_ERROR

rotateDescriptor(in_img, out_img, clockwise_degree) ==
  IF clockwise_degree = 180
  THEN editDescriptor(in_img, out_img, in_img.width, in_img.height, in_luma_stride(in_img))
  ELSE editDescriptor(in_img, out_img, in_img.height, in_img.width, in_img.height)

\* a variant of rotateData that turns the other way
rotateDataCounterClockwise(in_img, out, in_data, out_data, clockwise_degree) ==
  IF clockwise_degree = 270
  THEN editData(in_img, out, in_data, out_data,
                [<<i, j>> \in LumaIndex(out) |->
                   (in_img.height - j - 1) * in_luma_stride(in_img) + i],
                [<<i, j>> \in ChromaIndex(out) |->
                   (in_img.height \div 2 - j - 1) * in_chroma_stride(in_img) + i])
  ELSE IF clockwise_degree = 180
  THEN editData(in_img, out, in_data, out_data,
                [<<i, j>> \in LumaIndex(out) |->
                   (in_img.height - i - 1) * in_luma_stride(in_img)
                              + (in_img.width - j - 1)],
                [<<i, j>> \in ChromaIndex(out) |->
                   (in_img.height \div 2 - i - 1) * in_chroma_stride(in_img)
                              + (in_img.width \div 2 - j - 1)])
  ELSE editData(in_img, out, in_data, out_data,
                [<<i, j>> \in LumaIndex(out) |->
                   j * in_luma_stride(in_img) + (in_img.width - i - 1)],
                [<<i, j>> \in ChromaIndex(out) |->
                   j * in_chroma_stride(in_img) + (in_img.width \div 2 - i - 1)])

\* the bytes rotate leaves in out_img->data
rotateData(in_img, out, in_data, out_data, clockwise_degree) ==
  IF clockwise_degree = 90
  THEN editData(in_img, out, in_data, out_data,
                [<<i, j>> \in LumaIndex(out) |->
                   (in_img.height - j - 1) * in_luma_stride(in_img) + i],
                [<<i, j>> \in ChromaIndex(out) |->
                   (in_img.height \div 2 - j - 1) * in_chroma_stride(in_img) + i])
  ELSE IF clockwise_degree = 180
  THEN editData(in_img, out, in_data, out_data,
                [<<i, j>> \in LumaIndex(out) |->
                   (in_img.height - i - 1) * in_luma_stride(in_img)
                              + (in_img.width - j - 1)],
                [<<i, j>> \in ChromaIndex(out) |->
                   (in_img.height \div 2 - i - 1) * in_chroma_stride(in_img)
                              + (in_img.width \div 2 - j - 1)])
  ELSE editData(in_img, out, in_data, out_data,
                [<<i, j>> \in LumaIndex(out) |->
                   j * in_luma_stride(in_img) + (in_img.width - i - 1)],
                [<<i, j>> \in ChromaIndex(out) |->
                   j * in_chroma_stride(in_img) + (in_img.width \div 2 - i - 1)])

rotate ==
  /\ edit.pc = "entry"
  /\ edit.op = "rotate"
  /\ LET st == rotateStatus(edit.in_img, edit.out_img, edit.clockwise_degree)
         out == rotateDescriptor(edit.in_img, edit.out_img, edit.clockwise_degree)
     IN IF st # ULTRAHDR_NO_ERROR
        THEN edit' = [edit EXCEPT !.pc = "returned", !.status = st]
        ELSE edit' = [edit EXCEPT
                        !.pc = "returned",
                        !.status = st,
                        !.out_img = out,
                        !.out_data = rotateData(edit.in_img, out, edit.in_data, @,
                                                edit.clockwise_degree)]
  /\ UNCHANGED <<gmVars, tone, uhdr>>


\* number of bytes the caller allocates for the output of mirror or rotate
EditSize(in_img) ==
  LET size == in_luma_stride(in_img) * in_img.height
  IN IF in_img.pixelFormat = "MONOCHROME" THEN size ELSE (size * 3) \div 2

MirrorCall(in_img, out_img, mirror_dir) ==
  [pc |-> "entry", op |-> "mirror", in_img |-> in_img, out_img |-> out_img,
   mirror_dir |-> mirror_dir, status |-> "pending",
   in_data |-> [k \in 0 .. PictureSize(in_img) - 1 |-> (k + 1) % 256],
   out_data |-> Uninitialized(EditSize(in_img))]

RotateCall(in_img, out_img, clockwise_degree) ==
  [pc |-> "entry", op |-> "rotate", in_img |-> in_img, out_img |-> out_img,
   clockwise_degree |-> clockwise_degree, status |-> "pending",
   in_data |-> [k \in 0 .. PictureSize(in_img) - 1 |-> (k + 1) % 256],
   out_data |-> Uninitialized(EditSize(in_img))]

\* the four ways a call can hand over a null image or a null buffer
NullPictures ==
  {<<Picture(n[1], n[2], 4, 4, 0, 0, 0, "YUV420"), OutPicture(n[3], n[4])>> :
     n \in {<<TRUE, "nullptr", FALSE, "buf">>, <<FALSE, "nullptr", FALSE, "buf">>,
            <<FALSE, "buf", TRUE, "nullptr">>, <<FALSE, "buf", FALSE, "nullptr">>}}

MirrorArguments ==
  {MirrorCall(p, OutPicture(FALSE, "buf"), d) : p \in Pictures, d \in MirrorDirections}
  \cup {MirrorCall(n[1], n[2], d) : n \in NullPictures, d \in MirrorDirections}

Degrees == {0, 90, 180, 270, 360, 900}

RotateArguments ==
  {RotateCall(p, OutPicture(FALSE, "buf"), d) : p \in Pictures, d \in Degrees}
  \cup {RotateCall(n[1], n[2], d) : n \in NullPictures, d \in Degrees}

InitEditor ==
  /\ InitNoCall
  /\ tone = ToneIdle
  /\ edit \in MirrorArguments \cup RotateArguments

NextEditor == mirror \/ rotate

SpecEditor == InitEditor /\ [][NextEditor]_vars

(***************************************************************************)
(* Properties of mirror and rotate                                         *)
(***************************************************************************)
\* sample [i][j] of a plane of the image img whose bytes are data
PlaneY(img, data, i, j) == data[i * in_luma_stride(img) + j]
PlaneU(img, data, i, j) == data[in_chroma_offset(img) + i * in_chroma_stride(img) + j]
PlaneV(img, data, i, j) ==
  data[in_chroma_offset(img) + in_chroma_stride(img) * (img.height \div 2)
       + i * in_chroma_stride(img) + j]

\* the images a and b have the same size and the same samples on every plane
SamePicture(a, a_data, b, b_data) ==
  /\ a.width = b.width
  /\ a.height = b.height
  /\ a.pixelFormat = b.pixelFormat
  /\ \A i \in 0 .. a.height - 1 : \A j \in 0 .. a.width - 1 :
       PlaneY(a, a_data, i, j) = PlaneY(b, b_data, i, j)
  /\ a.pixelFormat = "YUV420" =>
       \A i \in 0 .. a.height \div 2 - 1 : \A j \in 0 .. a.width \div 2 - 1 :
         /\ PlaneU(a, a_data, i, j) = PlaneU(b, b_data, i, j)
         /\ PlaneV(a, a_data, i, j) = PlaneV(b, b_data, i, j)

Mirrored == edit.pc = "returned" /\ edit.op = "mirror" /\ edit.status = ULTRAHDR_NO_ERROR

\* the image and the bytes a second call of mirror makes of the output of the first
MirroredTwice ==
  LET out == mirrorDescriptor(edit.out_img, OutPicture(FALSE, "buf"))
  IN <<out, mirrorData(edit.out_img, out, edit.out_data,
                       Uninitialized(EditSize(edit.out_img)), edit.mirror_dir)>>

\* C12: mirror keeps the width and the height; a vertical mirror makes row i of
\* each plane the input's row (plane height - 1 - i), a horizontal mirror makes
\* column j of each plane the input's column (plane width - 1 - j); mirroring
\* the output again in the same direction gives back the input image.
MirrorFlipsPlanes ==
  Mirrored =>
    LET W == edit.in_img.width
        H == edit.in_img.height
        vertical == edit.mirror_dir = "VERTICAL"
    IN /\ edit.out_img.width = W
       /\ edit.out_img.height = H
       /\ \A i \in 0 .. H - 1 : \A j \in 0 .. W - 1 :
            OutY(i, j) = IF vertical THEN InY(H - 1 - i, j) ELSE InY(i, W - 1 - j)
       /\ edit.in_img.pixelFormat = "YUV420" =>
            \A i \in 0 .. H \div 2 - 1 : \A j \in 0 .. W \div 2 - 1 :
              /\ OutU(i, j) = IF vertical THEN InU(H \div 2 - 1 - i, j)
                              ELSE InU(i, W \div 2 - 1 - j)
              /\ OutV(i, j) = IF vertical THEN InV(H \div 2 - 1 - i, j)
                              ELSE InV(i, W \div 2 - 1 - j)
       /\ SamePicture(MirroredTwice[1], MirroredTwice[2], edit.in_img, edit.in_data)

\* a vertical mirror of a padded 4x4 YUV 4:2:0 image has moved the last rows first
MirrorFlipsPlanesWitness ==
  /\ Mirrored
  /\ edit.mirror_dir = "VERTICAL"
  /\ edit.in_img.pixelFormat = "YUV420"
  /\ edit.in_img.width = 4
  /\ edit.in_img.height = 4
  /\ edit.in_img.luma_stride = 6
  /\ OutY(0, 1) = InY(3, 1)
  /\ OutY(0, 1) # InY(0, 1)
  /\ OutU(0, 1) = InU(1, 1)
  /\ OutV(1, 0) = InV(0, 0)


Rotated == edit.pc = "returned" /\ edit.op = "rotate" /\ edit.status = ULTRAHDR_NO_ERROR

\* the image and the bytes rotate makes of the image img whose bytes are data
RotateOf(img, data, clockwise_degree) ==
  LET out == rotateDescriptor(img, OutPicture(FALSE, "buf"), clockwise_degree)
  IN <<out, rotateData(img, out, data, Uninitialized(EditSize(img)), clockwise_degree)>>

\* C13: rotate by 90 gives an H x W image with out[i][j] = in[H-1-j][i], by 180
\* a W x H image with out[i][j] = in[H-1-i][W-1-j], by 270 an H x W image with
\* out[i][j] = in[j][W-1-i], on the luma plane and with halved sizes on the U
\* and V planes; 90 followed by 270 is the identity and 90 twice is 180.
RotateTurnsPlanes ==
  Rotated =>
    LET W == edit.in_img.width
        H == edit.in_img.height
        d == edit.clockwise_degree
        out == edit.out_img
    IN /\ out.width = IF d = 180 THEN W ELSE H
       /\ out.height = IF d = 180 THEN H ELSE W
       /\ \A i \in 0 .. out.height - 1 : \A j \in 0 .. out.width - 1 :
            OutY(i, j) = CASE d = 90 -> InY(H - 1 - j, i)
                           [] d = 180 -> InY(H - 1 - i, W - 1 - j)
                           [] d = 270 -> InY(j, W - 1 - i)
       /\ edit.in_img.pixelFormat = "YUV420" =>
            \A i \in 0 .. out.height \div 2 - 1 : \A j \in 0 .. out.width \div 2 - 1 :
              /\ OutU(i, j) = CASE d = 90 -> InU(H \div 2 - 1 - j, i)
                                [] d = 180 -> InU(H \div 2 - 1 - i, W \div 2 - 1 - j)
                                [] d = 270 -> InU(j, W \div 2 - 1 - i)
              /\ OutV(i, j) = CASE d = 90 -> InV(H \div 2 - 1 - j, i)
                                [] d = 180 -> InV(H \div 2 - 1 - i, W \div 2 - 1 - j)
                                [] d = 270 -> InV(j, W \div 2 - 1 - i)
       /\ d = 90 => /\ SamePicture(RotateOf(out, edit.out_data, 270)[1],
                                   RotateOf(out, edit.out_data, 270)[2],
                                   edit.in_img, edit.in_data)
                    /\ SamePicture(RotateOf(out, edit.out_data, 90)[1],
                                   RotateOf(out, edit.out_data, 90)[2],
                                   RotateOf(edit.in_img, edit.in_data, 180)[1],
                                   RotateOf(edit.in_img, edit.in_data, 180)[2])

\* a rotation by 90 of a padded 4x2 YUV 4:2:0 image has made a 2x4 image whose
\* first row is the input's first column read upwards
RotateTurnsPlanesWitness ==
  /\ Rotated
  /\ edit.clockwise_degree = 90
  /\ edit.in_img.pixelFormat = "YUV420"
  /\ edit.in_img.width = 4
  /\ edit.in_img.height = 2
  /\ edit.in_img.luma_stride = 6
  /\ edit.out_img.width = 2
  /\ edit.out_img.height = 4
  /\ OutY(0, 0) = InY(1, 0)
  /\ OutY(0, 1) = InY(0, 0)
  /\ OutY(0, 0) # InY(0, 0)
  /\ OutU(1, 0) = InU(0, 1)


(***************************************************************************)
(* resize and addEffects (editorhelper.cpp), and the two addEffects calls  *)
(* of UltraHdr::convert on the SDR image and on its gain map               *)
(***************************************************************************)
MaxEffectUnits == 2    \* effects: image sides 4 and 4*MaxEffectUnits
MaxEffects == 2        \* effects: at most MaxEffects effects in a list

resizeDescriptor(in_img, out_img, out_width, out_height) ==
  editDescriptor(in_img, out_img, out_width, out_height, out_width)

\* the bytes resize leaves in out_img->data; the chroma loop runs over
\* out_img->height rows of out_img->width / 2 samples from the U plane onwards
resizeData(in_img, out, in_data, out_data) ==
  LET luma == StorePlane(out_data, 0, out.luma_stride, out.height, out.width,
                         [<<i, j>> \in LumaIndex(out) |->
                            in_data[((i * in_img.height) \div out.height)
                                      * in_luma_stride(in_img)
                                    + (j * in_img.width) \div out.width]])
  IN IF in_img.pixelFormat = "MONOCHROME" THEN luma
     ELSE StorePlane(luma, out.chroma_offset, out.chroma_stride, out.height,
                     out.width \div 2,
                     [<<i, j>> \in (0 .. out.height - 1) \X (0 .. out.width \div 2 - 1) |->
                        in_data[in_chroma_offset(in_img)
                                + ((i * in_img.height) \div out.height)
                                    * in_chroma_stride(in_img)
                                + (j * in_img.width) \div out.width]])

\* the ultrahdr_effect subclasses
CropEffect(left, right, top, bottom) ==
  [type |-> "crop", left |-> left, right |-> right, top |-> top, bottom |-> bottom]
MirrorEffect(mirror_dir) == [type |-> "mirror", mirror_dir |-> mirror_dir]
RotateEffect(clockwise_degree) == [type |-> "rotate", clockwise_degree |-> clockwise_degree]
ResizeEffect(new_width, new_height) ==
  [type |-> "resize", new_width |-> new_width, new_height |-> new_height]

\* the number of bytes addEffects allocates for the result of effect e on *last
effectSize(last, e, isSingleChannel) ==
  LET size == CASE e.type = "crop" -> (e.bottom - e.top + 1) * (e.right - e.left + 1)
                [] e.type = "resize" -> e.new_width * e.new_height
                [] OTHER -> last.width * last.height
  IN IF isSingleChannel THEN size ELSE (size * 3) \div 2

\* what the call of effect e on (last, &tmp) returns
effectStatus(last, tmp, e) ==
  CASE e.type = "crop" -> cropStatus(last, tmp, e.left, e.right, e.top, e.bottom)
    [] e.type = "mirror" -> editStatus(last, tmp)
    [] e.type = "rotate" -> rotateStatus(last, tmp, e.clockwise_degree)
    [] e.type = "resize" -> editStatus(last, tmp)

\* what the call of an accepted effect e leaves in tmp
effectDescriptor(last, tmp, e) ==
  CASE e.type = "crop" -> cropDescriptor(last, tmp, e.left, e.right, e.top, e.bottom)
    [] e.type = "mirror" -> mirrorDescriptor(last, tmp)
    [] e.type = "rotate" -> rotateDescriptor(last, tmp, e.clockwise_degree)
    [] e.type = "resize" -> resizeDescriptor(last, tmp, e.new_width, e.new_height)

\* what the call of an accepted effect e leaves in tmp_data
effectData(last, tmp, last_data, tmp_data, e) ==
  CASE e.type = "crop" -> cropData(last, tmp, last_data, tmp_data, e.left, e.top)
    [] e.type = "mirror" -> mirrorData(last, tmp, last_data, tmp_data, e.mirror_dir)
    [] e.type = "rotate" -> rotateData(last, tmp, last_data, tmp_data, e.clockwise_degree)
    [] e.type = "resize" -> resizeData(last, tmp, last_data, tmp_data)

\* one pass of the loop of addEffects: effect e is run on (last, &tmp) and its
\* status dropped, then tmp's fields and size bytes of tmp_data are copied out
addEffectsPass(last, last_data, e, out_img, out_data, tmp, isSingleChannel) ==
  LET size == effectSize(last, e, isSingleChannel)
      tmp_data == Uninitialized(size)
      fresh == [tmp EXCEPT !.data = "buf"]
      ok == effectStatus(last, fresh, e) = ULTRAHDR_NO_ERROR
      result == IF ok THEN effectDescriptor(last, fresh, e) ELSE fresh
      bytes == IF ok THEN effectData(last, result, last_data, tmp_data, e) ELSE tmp_data
      copied == [out_img EXCEPT !.width = result.width,
                                !.height = result.height,
                                !.colorGamut = result.colorGamut,
                                !.pixelFormat = result.pixelFormat,
                                !.luma_stride = result.luma_stride,
                                !.chroma_stride = result.chroma_stride]
  IN [tmp |-> result,
      out_img |-> IF isSingleChannel THEN copied
                  ELSE [copied EXCEPT !.chroma_data = "buf",
                                      !.chroma_offset = copied.luma_stride * copied.height],
      out_data |-> memcpy(out_data, 0, bytes, 0, size)]

\* a variant of the loop of addEffects that runs every effect on the input image
RECURSIVE addEffectsLoopOnInput(_, _, _, _, _, _, _, _)
addEffectsLoopOnInput(last, last_data, effects, k, out_img, out_data, tmp, isSingleChannel) ==
  IF k > Len(effects)
  THEN [status |-> ULTRAHDR_NO_ERROR, out_img |-> out_img, out_data |-> out_data]
  ELSE LET pass == addEffectsPass(last, last_data, effects[k], out_img, out_data, tmp,
                                  isSingleChannel)
       IN addEffectsLoopOnInput(last, last_data, effects, k + 1,
                                pass.out_img, pass.out_data, pass.tmp, isSingleChannel)

\* the loop of addEffects from effect k: tmp is declared outside the loop and
\* keeps what the last accepted effect wrote, and last becomes out_img
RECURSIVE addEffectsLoop(_, _, _, _, _, _, _, _)
addEffectsLoop(last, last_data, effects, k, out_img, out_data, tmp, isSingleChannel) ==
  IF k > Len(effects)
  THEN [status |-> ULTRAHDR_NO_ERROR, out_img |-> out_img, out_data |-> out_data]
  ELSE LET pass == addEffectsPass(last, last_data, effects[k], out_img, out_data, tmp,
                                  isSingleChannel)
       IN addEffectsLoop(pass.out_img, pass.out_data, effects, k + 1,
                         pass.out_img, pass.out_data, pass.tmp, isSingleChannel)

\* addEffects(in_img, effects, out_img): the status returned, *out_img and the
\* bytes at out_img->data; tmp is the uninitialised local struct
addEffects(in_img, in_data, effects, out_img, out_data, tmp) ==
  IF in_img.null \/ in_img.data = "nullptr" \/ out_img.null \/ out_img.data = "nullptr"
  THEN [status |-> ERROR_ULTRAHDR_BAD_PTR, out_img |-> out_img, out_data |-> out_data]
  ELSE LET isSingleChannel == in_img.pixelFormat = "MONOCHROME"
           size == IF isSingleChannel THEN in_img.width * in_img.height
                   ELSE (in_img.width * in_img.height * 3) \div 2
           out == [out_img EXCEPT !.width = in_img.width,
                                  !.height = in_img.height,
                                  !.colorGamut = in_img.colorGamut,
                                  !.pixelFormat = in_img.pixelFormat,
                                  !.luma_stride = in_img.luma_stride,
                                  !.chroma_stride = in_img.chroma_stride]
       IN addEffectsLoop(in_img, in_data, effects, 1, out,
                         memcpy(out_data, 0, in_data, 0, size), tmp, isSingleChannel)


\* the capacity of the buffers convert hands to addEffects, scaled to the images
MAX_BUFFER_SIZE == ((4 * MaxEffectUnits) * (4 * MaxEffectUnits) * 3) \div 2

EffectSides == {4, 4 * MaxEffectUnits}

\* sdr_raw_img as addImage stores it: tightly packed YUV 4:2:0
SdrImages ==
  {Picture(FALSE, "buf", w, h, w, w * h, w \div 2, "YUV420") :
     w \in EffectSides, h \in EffectSides}

\* gain_map_raw_img as generateGainMap leaves it for the image sdr
GainMapOf(sdr) == gainMapDescriptor(sdr, OutPicture(FALSE, "buf"), "buf")

\* effects a configuration may hold: crops of 4x2 and 2x2, a mirror, rotations
\* by a supported and an unsupported degree, a resize
Effects ==
  {CropEffect(0, 3, 0, 1), CropEffect(0, 1, 0, 1), MirrorEffect("VERTICAL"),
   RotateEffect(90), RotateEffect(900), ResizeEffect(4 * MaxEffectUnits, 4)}

EffectLists == UNION {[1 .. n -> Effects] : n \in 0 .. MaxEffects}

\* the values an uninitialised ultrahdr_uncompressed_struct on the stack may hold
StackGarbage ==
  {OutPicture(FALSE, "nullptr"),
   [Picture(FALSE, "nullptr", 2, 2, 2, 4, 1, "YUV420") EXCEPT !.colorGamut = "P3"]}

\* convert is about to call addEffects on sdr_raw_img and on gain_map_raw_img
EffectsCall(sdr, effects) ==
  [pc |-> "entry", op |-> "addEffects", effects |-> effects,
   in_img |-> sdr,
   in_data |-> [k \in 0 .. PictureSize(sdr) - 1 |-> (k + 1) % 256],
   out_img |-> OutPicture(FALSE, "buf"),
   out_data |-> Uninitialized(MAX_BUFFER_SIZE),
   map_img |-> GainMapOf(sdr),
   map_data |-> [k \in 0 .. PictureSize(GainMapOf(sdr)) - 1 |-> (k + 201) % 256],
   map_out |-> OutPicture(FALSE, "buf"),
   map_out_data |-> Uninitialized(MAX_BUFFER_SIZE),
   status |-> "pending"]

EffectsArguments == {EffectsCall(sdr, effects) : sdr \in SdrImages, effects \in EffectLists}

\* ULTRAHDR_CHECK(addEffects(sdr_raw_img.get(), config->effects, &sdr_raw_img_after_effects))
addEffectsSdr ==
  /\ edit.pc = "entry"
  /\ edit.op = "addEffects"
  /\ \E tmp \in StackGarbage :
       LET r == addEffects(edit.in_img, edit.in_data, edit.effects, edit.out_img,
                           edit.out_data, tmp)
       IN edit' = [edit EXCEPT !.pc = IF r.status = ULTRAHDR_NO_ERROR THEN "sdr" ELSE "returned",
                               !.status = r.status,
                               !.out_img = r.out_img,
                               !.out_data = r.out_data]
  /\ UNCHANGED <<gmVars, tone, uhdr>>

\* ULTRAHDR_CHECK(addEffects(gain_map_raw_img.get(), config->effects,
\*                           &gain_map_raw_img_after_effects))
addEffectsGainMap ==
  /\ edit.pc = "sdr"
  /\ edit.op = "addEffects"
  /\ \E tmp \in StackGarbage :
       LET r == addEffects(edit.map_img, edit.map_data, edit.effects, edit.map_out,
                           edit.map_out_data, tmp)
       IN edit' = [edit EXCEPT !.pc = "returned",
                               !.status = r.status,
                               !.map_out = r.out_img,
                               !.map_out_data = r.out_data]
  /\ UNCHANGED <<gmVars, tone, uhdr>>

InitEffects ==
  /\ InitNoCall
  /\ tone = ToneIdle
  /\ edit \in EffectsArguments

NextEffects == addEffectsSdr \/ addEffectsGainMap

SpecEffects == InitEffects /\ [][NextEffects]_vars


(***************************************************************************)
(* Properties of addEffects                                                *)
(***************************************************************************)
\* the first addEffects call of convert has returned
EffectsApplied == edit.op = "addEffects" /\ edit.pc # "entry"

\* both addEffects calls of convert have returned
PairEdited == edit.op = "addEffects" /\ edit.pc = "returned"

UnsupportedRotation(e) ==
  e.type = "rotate" /\ e.clockwise_degree \notin {90, 180, 270}

\* a direct call of rotate with live pointers and an unsupported degree is rejected
RotateDirectRejectsDegree ==
  (/\ edit.op = "rotate"
   /\ edit.pc = "returned"
   /\ ~edit.in_img.null /\ edit.in_img.data # "nullptr"
   /\ ~edit.out_img.null /\ edit.out_img.data # "nullptr"
   /\ edit.clockwise_degree \notin {90, 180, 270})
  => /\ edit.status = ERROR_ULTRAHDR_INVALID_CROPPING_PARAMETERS
     /\ edit.out_img = OutPicture(FALSE, "buf")

\* C14: an effect list that holds a rotation by degrees other than 90, 180 and
\* 270 makes addEffects return InvalidCropping, never success.
EffectsRejectDegree ==
  (EffectsApplied /\ \E k \in DOMAIN edit.effects : UnsupportedRotation(edit.effects[k]))
  => edit.status = ERROR_ULTRAHDR_INVALID_CROPPING_PARAMETERS

\* addEffects has returned success for the list that holds only a rotation by 900
EffectsRejectDegreeWitness ==
  /\ EffectsApplied
  /\ edit.effects = <<RotateEffect(900)>>
  /\ edit.status = ULTRAHDR_NO_ERROR

\* C15: after the same effect list was applied to the base image and to its
\* gain map, the width and the height of the base image are multiples of those
\* of the gain map, with the same ratio.
PairStaysDivisible ==
  PairEdited =>
    /\ edit.map_out.width > 0
    /\ edit.map_out.height > 0
    /\ edit.out_img.width % edit.map_out.width = 0
    /\ edit.out_img.height % edit.map_out.height = 0
    /\ edit.out_img.width \div edit.map_out.width
         = edit.out_img.height \div edit.map_out.height

\* a mirror and a 4x2 crop of an 8x8 image and its 2x2 gain map have left a 4x2
\* image and a 2x2 gain map
PairStaysDivisibleWitness ==
  /\ PairEdited
  /\ edit.effects = <<MirrorEffect("VERTICAL"), CropEffect(0, 3, 0, 1)>>
  /\ edit.in_img.width = 8
  /\ edit.in_img.height = 8
  /\ edit.out_img.width = 4
  /\ edit.out_img.height = 2
  /\ edit.map_out.width = 2
  /\ edit.map_out.height = 2

\* C16: the gain map convert gets by applying the effect list to the gain map
\* of the unedited images has the size of the gain map generateGainMap makes of
\* the edited image.
EditCommutesWithGeneration ==
  PairEdited =>
    /\ edit.map_out.width = GainMapOf(edit.out_img).width
    /\ edit.map_out.height = GainMapOf(edit.out_img).height

\* a resize to 8x4 of an 8x8 image and its gain map has left an 8x4 gain map,
\* where the gain map of the resized image is 2x1
EditCommutesWithGenerationWitness ==
  /\ PairEdited
  /\ edit.effects = <<ResizeEffect(8, 4)>>
  /\ edit.in_img.width = 8
  /\ edit.in_img.height = 8
  /\ edit.out_img.width = 8
  /\ edit.out_img.height = 4
  /\ edit.map_out.width = 8
  /\ edit.map_out.height = 4
  /\ GainMapOf(edit.out_img).width = 2
  /\ GainMapOf(edit.out_img).height = 1

\* effect e is one its function accepts on an image of size dims
EffectAccepted(dims, e) ==
  CASE e.type = "crop" -> /\ 0 <= e.left /\ e.left <= e.right /\ e.right < dims[1]
                          /\ 0 <= e.top /\ e.top <= e.bottom /\ e.bottom < dims[2]
    [] e.type = "rotate" -> ~UnsupportedRotation(e)
    [] OTHER -> TRUE

\* the size effect e makes of an image of size dims
EffectDimensions(dims, e) ==
  CASE e.type = "crop" -> <<e.right - e.left + 1, e.bottom - e.top + 1>>
    [] e.type = "mirror" -> dims
    [] e.type = "rotate" -> IF e.clockwise_degree = 180 THEN dims ELSE <<dims[2], dims[1]>>
    [] e.type = "resize" -> <<e.new_width, e.new_height>>

\* the sizes after each effect of the list, in list order, from effect k;
\* <<>> when an effect is not accepted on the size it is given
RECURSIVE FoldDimensions(_, _, _)
FoldDimensions(dims, effects, k) ==
  IF k > Len(effects) THEN dims
  ELSE IF ~EffectAccepted(dims, effects[k]) THEN <<>>
  ELSE FoldDimensions(EffectDimensions(dims, effects[k]), effects, k + 1)

\* C17: for a list of effects that are each accepted on the result of the one
\* before, addEffects returns an image whose width and height are the effects'
\* size rules folded in list order over the input size (the input size for the
\* empty list, the rectangle of a final crop), with the input's color gamut and
\* pixel format.
EffectsFoldInOrder ==
  EffectsApplied =>
    LET dims == FoldDimensions(<<edit.in_img.width, edit.in_img.height>>, edit.effects, 1)
    IN dims # <<>> =>
         /\ edit.status = ULTRAHDR_NO_ERROR
         /\ edit.out_img.width = dims[1]
         /\ edit.out_img.height = dims[2]
         /\ edit.out_img.colorGamut = edit.in_img.colorGamut
         /\ edit.out_img.pixelFormat = edit.in_img.pixelFormat
         /\ edit.effects = <<>> => dims = <<edit.in_img.width, edit.in_img.height>>
         /\ (edit.effects # <<>> /\ edit.effects[Len(edit.effects)].type = "crop") =>
              LET e == edit.effects[Len(edit.effects)]
              IN /\ edit.out_img.width = e.right - e.left + 1
                 /\ edit.out_img.height = e.bottom - e.top + 1

\* a resize to 8x4 followed by a rotation by 90 has made a 4x8 image of a 4x4 one
EffectsFoldInOrderWitness ==
  /\ EffectsApplied
  /\ edit.effects = <<ResizeEffect(8, 4), RotateEffect(90)>>
  /\ edit.in_img.width = 4
  /\ edit.in_img.height = 4
  /\ edit.out_img.width = 4
  /\ edit.out_img.height = 8
  /\ edit.out_img.pixelFormat = "YUV420"

(***************************************************************************)
(* The UltraHdr object: addImage, addExif and convert fill and read its    *)
(* members.  A member's contents are named by where they came from; the    *)
(* codecs and the in-memory transforms the calls rely on are the           *)
(* environment, env, which says which of them succeed.                     *)
(***************************************************************************)
Alive == uhdr.status # "SIGSEGV"

\* member = value: an assignment to a shared_ptr member of the object
Set(u, slot, value) ==
  [u EXCEPT ![slot] = value,
            !.rewritten = IF u[slot] # Null THEN @ \cup {slot} ELSE @]

\* the object as a call finds it
Entered(u) == [u EXCEPT !.rewritten = {}, !.ran = {}]

\* the object after a call of a collaborator
Ran(u, callee) == [u EXCEPT !.ran = @ \cup {callee}]

\* the object after a call that was not addImage(uncompressed)
Mixed(u) == [u EXCEPT !.raw_only = FALSE, !.first_p010 = Null, !.first_yuv420 = Null]

\* which of the callees succeed: the JPEG decoder, the XMP parser,
\* generateGainMap, and the encoder, decoder or applyGainMap that writes the
\* output (toneMap is always handed live pictures of one size, which it accepts)
Callees == {"decodes", "parses", "generates", "encodes"}

\* the environments in which at most one of the callees fails
Environments ==
  {[c \in Callees |-> c # failing] : failing \in Callees \cup {"none"}}

\* the ultrahdr_uncompressed_struct arguments of addImage: two P010 and two
\* YUV420 buffers, a monochrome one, a P010 struct without data, and a null pointer
RawImages ==
  [null : {FALSE}, id : {"a", "b"}, pixelFormat : {"P010", "YUV420"}, data : {"buf"}]
  \cup {[null |-> FALSE, id |-> "m", pixelFormat |-> "MONOCHROME", data |-> "buf"],
        [null |-> FALSE, id |-> "n", pixelFormat |-> "P010", data |-> "nullptr"],
        [null |-> TRUE, id |-> "null", pixelFormat |-> "none", data |-> "nullptr"]}

\* What a build does when addImage reads through a null pointer: the load traps,
\* or (no memory protection) it reads whatever lies at the address and goes on.
NullReadOutcomes == {"SIGSEGV", "reads address 0"}

\* the contents a member gets from memcpy(member->data, image->data, size)
CopyOf(image) ==
  IF image.data = "nullptr" THEN <<"indeterminate">>
  ELSE <<"copy", image.pixelFormat, image.id>>

\* addImage without the tests that keep a populated member
addImageOverwriting(u, image, undefined) ==
  IF image.null
  THEN IF undefined = "SIGSEGV" THEN [u EXCEPT !.status = "SIGSEGV"]
       ELSE [u EXCEPT !.status = ERROR_ULTRAHDR_BAD_PTR]
  ELSE CASE image.pixelFormat = "P010" ->
              IF image.data = "nullptr" /\ undefined = "SIGSEGV"
              THEN [u EXCEPT !.status = "SIGSEGV"]
              ELSE [Set(u, "hdr_raw_img", CopyOf(image))
                      EXCEPT !.status = ULTRAHDR_NO_ERROR]
         [] image.pixelFormat = "YUV420" ->
              IF image.data = "nullptr" /\ undefined = "SIGSEGV"
              THEN [u EXCEPT !.status = "SIGSEGV"]
              ELSE [Set(u, "sdr_raw_img", CopyOf(image))
                      EXCEPT !.status = ULTRAHDR_NO_ERROR]
         [] OTHER -> [u EXCEPT !.status = ERROR_ULTRAHDR_UNSUPPORTED_FEATURE]

\* UltraHdr::addImage(ultrahdr_uncompressed_struct*).  The guard is
\* image == nullptr && image->data == nullptr, so a null image is read through
\* (and the switch reads it again), and a struct without data passes the guard
\* and is read by memcpy when its member is still empty.
addImageUncompressed(u, image, undefined) ==
  IF image.null
  THEN IF undefined = "SIGSEGV" THEN [u EXCEPT !.status = "SIGSEGV"]
       ELSE [u EXCEPT !.status = ERROR_ULTRAHDR_BAD_PTR]
  ELSE CASE image.pixelFormat = "P010" ->
              IF u.hdr_raw_img = Null
              THEN IF image.data = "nullptr" /\ undefined = "SIGSEGV"
                   THEN [u EXCEPT !.status = "SIGSEGV"]
                   ELSE [Set(u, "hdr_raw_img", CopyOf(image))
                           EXCEPT !.status = ULTRAHDR_NO_ERROR]
              ELSE [u EXCEPT !.status = ULTRAHDR_NO_ERROR]
         [] image.pixelFormat = "YUV420" ->
              IF u.sdr_raw_img = Null
              THEN IF image.data = "nullptr" /\ undefined = "SIGSEGV"
                   THEN [u EXCEPT !.status = "SIGSEGV"]
                   ELSE [Set(u, "sdr_raw_img", CopyOf(image))
                           EXCEPT !.status = ULTRAHDR_NO_ERROR]
              ELSE [u EXCEPT !.status = ULTRAHDR_NO_ERROR]
         [] OTHER -> [u EXCEPT !.status = ERROR_ULTRAHDR_UNSUPPORTED_FEATURE]

\* the first buffer of a pixel format that was handed to addImage
FirstOf(first, image, pixelFormat) ==
  IF uhdr.raw_only /\ first = Null /\ ~image.null /\ image.pixelFormat = pixelFormat
  THEN <<image.id>> ELSE first

addImage ==
  /\ Alive
  /\ \E image \in RawImages, undefined \in NullReadOutcomes :
       uhdr' = [addImageUncompressed(Entered(uhdr), image, undefined) EXCEPT
                  !.fn = "addImage(uncompressed)",
                  !.arg = <<image.pixelFormat, image.id>>,
                  !.dest = Null,
                  !.first_p010 = FirstOf(@, image, "P010"),
                  !.first_yuv420 = FirstOf(@, image, "YUV420")]
  /\ UNCHANGED <<gmVars, tone, edit>>

\* static bool isJpeg(uint8_t* data, int len); data is the sequence of the
\* file's bytes, Null for nullptr.  && binds tighter than ||.
isJpeg(data, len) ==
  IF data = Null \/ len < 3 THEN FALSE
  ELSE (data[1] = 255 /\ data[2] = 216) \/ data[3] = 255

\* the brands of isAvif and isHeic, in ASCII
AvifBrands == {<<97, 118, 105, 102>>, <<97, 118, 105, 115>>}
HeicBrands ==
  {<<104, 101, 105, 99>>, <<104, 101, 105, 120>>, <<104, 101, 105, 109>>,
   <<104, 101, 105, 115>>, <<109, 105, 102, 49>>, <<104, 101, 118, 99>>,
   <<104, 101, 118, 120>>, <<104, 101, 118, 109>>, <<104, 101, 118, 115>>,
   <<109, 115, 102, 49>>}

\* static bool isAvif(uint8_t* data, int len)
isAvif(data, len) ==
  IF data = Null \/ len < 12 THEN FALSE
  ELSE SubSeq(data, 9, 12) \in AvifBrands

\* static bool isHeic(uint8_t* data, int len)
isHeic(data, len) ==
  IF data = Null \/ len < 12 THEN FALSE
  ELSE SubSeq(data, 9, 12) \in HeicBrands

\* static bool isHeif(uint8_t* data, int len)
isHeif(data, len) == isHeic(data, len) \/ isAvif(data, len)

\* the ultrahdr_compressed_struct arguments of addImage: a plain JPEG, a
\* JPEG/R, an 8-bit HEIC with Exif and gain map, a 10-bit AVIF with gain map,
\* and a PNG.  kind says what the file is and data holds its first bytes;
\* bits, exif_blocks and gain_map are what libheif finds in a HEIF.
CompressedImages ==
  {[kind |-> "jpeg", id |-> "j1", bits |-> 8, exif_blocks |-> 0, gain_map |-> FALSE,
    data |-> <<255, 216, 255, 224, 0, 16, 74, 70, 73, 70, 0, 1>>],
   [kind |-> "jpegr", id |-> "r", bits |-> 8, exif_blocks |-> 0, gain_map |-> TRUE,
    data |-> <<255, 216, 255, 225, 0, 16, 69, 120, 105, 102, 0, 0>>],
   [kind |-> "heif", id |-> "h8", bits |-> 8, exif_blocks |-> 1, gain_map |-> TRUE,
    data |-> <<0, 0, 0, 24, 102, 116, 121, 112, 104, 101, 105, 99>>],
   [kind |-> "heif", id |-> "h10", bits |-> 10, exif_blocks |-> 0, gain_map |-> TRUE,
    data |-> <<0, 0, 0, 28, 102, 116, 121, 112, 97, 118, 105, 102>>],
   [kind |-> "png", id |-> "p", bits |-> 8, exif_blocks |-> 0, gain_map |-> FALSE,
    data |-> <<137, 80, 78, 71, 13, 10, 26, 10, 0, 0, 0, 13>>]}

SetIfNull(u, slot, value) == IF u[slot] = Null THEN Set(u, slot, value) ELSE u

\* the JPEG/R branch of addImage(ultrahdr_compressed_struct*)
addImageJpegR(u, image, env) ==
  LET withPrimary == SetIfNull(u, "sdr_jpeg_img", <<"jpeg">>)
      withMap == SetIfNull(withPrimary, "gain_map_raw_img", <<"gain map">>)
      withMetadata ==
        SetIfNull(withMap, "gain_map_metadata",
                  IF env.parses THEN <<"metadata">> ELSE <<"unparsed">>)
  IN IF withPrimary.gain_map_raw_img = Null \/ withPrimary.gain_map_metadata = Null
     THEN IF ~env.decodes
          THEN [withPrimary EXCEPT !.status = ERROR_ULTRAHDR_DECODE_ERROR]
          ELSE IF withMap.gain_map_metadata = Null /\ ~env.parses
               THEN [withMetadata EXCEPT !.status = ERROR_ULTRAHDR_METADATA_ERROR]
               ELSE [withMetadata EXCEPT !.status = ULTRAHDR_NO_ERROR]
     ELSE [withPrimary EXCEPT !.status = ULTRAHDR_NO_ERROR]

\* the gain-map part of the HEIF branch
addImageHeifGainMap(u, image) ==
  IF ~image.gain_map THEN [u EXCEPT !.status = ULTRAHDR_NO_ERROR]
  ELSE [SetIfNull(SetIfNull(u, "gain_map_raw_img", <<"gain map">>),
                  "gain_map_metadata", <<"metadata">>)
          EXCEPT !.status = ULTRAHDR_NO_ERROR]

\* the HEIF branch of addImage(ultrahdr_compressed_struct*)
addImageHeif(u, image) ==
  LET withExif == IF image.exif_blocks = 1
                  THEN SetIfNull(u, "exif", <<"exif">>) ELSE u
  IN CASE image.bits = 10 ->
            IF withExif.hdr_raw_img = Null
            THEN [Set(withExif, "hdr_raw_img", <<"decoded", "heif">>)
                    EXCEPT !.status = ULTRAHDR_NO_ERROR]
            ELSE addImageHeifGainMap(withExif, image)
       [] image.bits = 8 ->
            addImageHeifGainMap(
              SetIfNull(SetIfNull(withExif, "sdr_raw_img", <<"decoded", "heif">>),
                        "sdr_heif_img", <<"heif">>),
              image)
       [] OTHER -> addImageHeifGainMap(withExif, image)

\* UltraHdr::addImage(ultrahdr_compressed_struct*).  In the JPEG branch
\* JpegR::extractPrimaryImageAndGainMap succeeds on a JPEG with gain map; any
\* other file of that branch is stored whole as the plain JPEG.
addImageCompressed(u, image, env) ==
  CASE isJpeg(image.data, Len(image.data)) ->
         IF image.kind = "jpegr"
         THEN addImageJpegR(Ran(u, "JpegR"), image, env)
         ELSE [SetIfNull(Ran(u, "JpegR"), "sdr_jpeg_img", <<"jpeg">>)
                 EXCEPT !.status = ULTRAHDR_NO_ERROR]
    [] isHeif(image.data, Len(image.data)) -> addImageHeif(Ran(u, "libheif"), image)
    [] OTHER -> [u EXCEPT !.status = ERROR_ULTRAHDR_UNSUPPORTED_FEATURE]

addCompressedImage ==
  /\ Alive
  /\ \E image \in CompressedImages, env \in Environments :
       uhdr' = [Mixed(addImageCompressed(Entered(uhdr), image, env)) EXCEPT
                  !.fn = "addImage(compressed)",
                  !.arg = <<image.kind, image.id>>,
                  !.dest = Null]
  /\ UNCHANGED <<gmVars, tone, edit>>

\* the ultrahdr_exif_struct arguments of addExif: a block, an empty block, null
ExifBlocks ==
  {[null |-> FALSE, id |-> "e", length |-> 1],
   [null |-> FALSE, id |-> "z", length |-> 0],
   [null |-> TRUE, id |-> "null", length |-> 0]}

\* UltraHdr::addExif.  The guard is in_exif == nullptr && in_exif->data == nullptr,
\* so a null block is read through; and the new member has no data when memcpy
\* writes length bytes to it, which a build traps on or (no memory protection)
\* carries out at address 0.
addExifBlock(u, in_exif, undefined) ==
  IF in_exif.null
  THEN IF undefined = "SIGSEGV" THEN [u EXCEPT !.status = "SIGSEGV"]
       ELSE [u EXCEPT !.status = ERROR_ULTRAHDR_BAD_PTR]
  ELSE IF u.exif = Null
       THEN IF in_exif.length > 0 /\ undefined = "SIGSEGV"
            THEN [u EXCEPT !.status = "SIGSEGV"]
            ELSE [Set(u, "exif", <<"exif">>)
                    EXCEPT !.status = ULTRAHDR_NO_ERROR]
       ELSE [u EXCEPT !.status = ULTRAHDR_NO_ERROR]

addExif ==
  /\ Alive
  /\ \E in_exif \in ExifBlocks, undefined \in NullReadOutcomes :
       uhdr' = [Mixed(addExifBlock(Entered(uhdr), in_exif, undefined)) EXCEPT
                  !.fn = "addExif",
                  !.arg = Null,
                  !.dest = Null]
  /\ UNCHANGED <<gmVars, tone, edit>>

\* UltraHdr::maybeDecodeJpegSdr: the members after the call (convert drops
\* the status).  The early return needs sdr_raw_img AND exif, so a populated
\* sdr_raw_img is assigned again when exif is still null.
maybeDecodeJpegSdr(u, env) ==
  IF u.sdr_jpeg_img = Null THEN u
  ELSE IF u.sdr_raw_img # Null /\ u.exif # Null THEN u
  ELSE IF ~env.decodes THEN Ran(u, "decoder")
  ELSE SetIfNull(Set(Ran(u, "decoder"), "sdr_raw_img", <<"decoded", "jpeg">>),
                 "exif", <<"exif">>)

\* UltraHdr::maybeToneMapRawHdr: the members after the call (convert drops the
\* status)
maybeToneMapRawHdr(u, env) ==
  IF u.sdr_raw_img # Null \/ u.hdr_raw_img = Null THEN u
  ELSE Set(Ran(u, "toneMap"), "sdr_raw_img", <<"toneMap">>)

\* the ultrahdr_configuration arguments of convert
OutputCodecs ==
  {"JPEG", "JPEG_R", "HEIC", "HEIC_R", "HEIC_10_BIT", "AVIF", "AVIF_R", "AVIF_10_BIT",
   "RAW_PIXELS", "UNSPECIFIED"}
RawPixelFormats == {"P010", "YUV420", "MONOCHROME", "RGBA8888", "RGBAF16", "RGBA1010102"}

CompressedConfigurations ==
  [null : {FALSE}, outputCodec : OutputCodecs, pixelFormat : {"UNSPECIFIED"},
   transferFunction : {"LINEAR"}, effects : {"empty", "some"}]
  \cup {[null |-> TRUE, outputCodec |-> "UNSPECIFIED", pixelFormat |-> "YUV420",
         transferFunction |-> "LINEAR", effects |-> "empty"]}

\* the (config, dest) pairs of the compressed overload: dest is null in one
ConvertArguments ==
  (CompressedConfigurations \X {"buf"})
  \cup {<<c, "nullptr">> : c \in {d \in CompressedConfigurations :
                                    d.outputCodec = "JPEG" /\ d.effects = "empty"}}

UncompressedConfigurations ==
  [null : {FALSE}, outputCodec : {"RAW_PIXELS"}, pixelFormat : RawPixelFormats,
   transferFunction : {"LINEAR"}, effects : {"empty", "some"}]
  \cup [null : {FALSE}, outputCodec : {"RAW_PIXELS"},
        pixelFormat : {"RGBAF16", "RGBA1010102"},
        transferFunction : {"HLG"}, effects : {"empty"}]
  \cup {[null |-> FALSE, outputCodec |-> "JPEG", pixelFormat |-> "YUV420",
         transferFunction |-> "LINEAR", effects |-> "empty"],
        [null |-> TRUE, outputCodec |-> "UNSPECIFIED", pixelFormat |-> "YUV420",
         transferFunction |-> "LINEAR", effects |-> "empty"]}

\* what a convert call leaves: the members, the status, and dest
Result(u, st, out) == [u |-> u, status |-> st, dest |-> out]

\* dest after createOutputMemory, before anything is written to it
Allocated == <<"allocated">>
\* dest pointing at a member of the object
Alias(slot) == <<"alias", slot>>
\* dest holding the requested output
Output(config) == <<"output", config.outputCodec>>

\* ULTRAHDR_CHECK(encoder.encode...(...)); return ULTRAHDR_NO_ERROR;
encode(u, config, env) ==
  IF env.encodes THEN Result(u, ULTRAHDR_NO_ERROR, Output(config))
  ELSE Result(u, ERROR_ULTRAHDR_ENCODE_ERROR, Allocated)

\* encode API-0: the encoder makes the SDR rendition of hdr_raw_img with
\* toneMap, then the gain map, and writes dest
encodeFromHdr(u, config, env) == encode(Ran(u, "toneMap"), config, env)

\* the paths of convert that make the gain map anew before the effects:
\* gain_map_raw_img and gain_map_metadata are assigned, generateGainMap fills
\* them, addEffects edits both pictures (with live arguments it returns
\* ULTRAHDR_NO_ERROR), and the encoder writes dest
generateAndEncode(u, config, env) ==
  LET g == Set(Set(u, "gain_map_raw_img", <<"generated">>),
               "gain_map_metadata", <<"generated">>)
  IN IF ~env.generates THEN Result(g, ERROR_ULTRAHDR_RESOLUTION_MISMATCH, Allocated)
     ELSE encode(g, config, env)

\* case ULTRAHDR_CODEC_JPEG
convertJpeg(u, config, env) ==
  IF u.sdr_jpeg_img # Null /\ config.effects = "empty"
  THEN Result(u, ULTRAHDR_NO_ERROR, Alias("sdr_jpeg_img"))
  ELSE LET t == maybeToneMapRawHdr(u, env)
       IN IF t.sdr_raw_img # Null
          THEN IF ~env.encodes THEN Result(t, ERROR_ULTRAHDR_ENCODE_ERROR, Null)
               ELSE Result(t, ULTRAHDR_NO_ERROR, Output(config))
          ELSE Result(t, ERROR_ULTRAHDR_INSUFFICIENT_RESOURCE, Null)

\* case ULTRAHDR_CODEC_JPEG_R
convertJpegR(u, config, env) ==
  CASE /\ u.gain_map_jpeg_img # Null /\ u.sdr_jpeg_img # Null
       /\ u.gain_map_metadata # Null /\ config.effects = "empty" ->
         encode(u, config, env)
    [] /\ u.sdr_raw_img # Null /\ u.gain_map_raw_img # Null
       /\ u.gain_map_metadata # Null ->
         encode(u, config, env)
    [] /\ u.hdr_raw_img # Null /\ u.sdr_raw_img # Null /\ u.sdr_jpeg_img # Null
       /\ config.effects = "empty" ->
         encode(u, config, env)
    [] u.hdr_raw_img # Null /\ u.sdr_jpeg_img # Null /\ config.effects = "empty" ->
         encode(u, config, env)
    [] u.hdr_raw_img # Null /\ u.sdr_raw_img # Null ->
         IF config.effects = "empty" THEN encode(u, config, env)
         ELSE generateAndEncode(u, config, env)
    [] u.hdr_raw_img # Null ->
         IF config.effects = "empty" THEN encodeFromHdr(u, config, env)
         ELSE generateAndEncode(maybeToneMapRawHdr(u, env), config, env)
    [] OTHER -> Result(u, ERROR_ULTRAHDR_INSUFFICIENT_RESOURCE, Allocated)

\* case ULTRAHDR_CODEC_HEIC_R, case ULTRAHDR_CODEC_AVIF_R
convertHeifR(u, config, env) ==
  LET t == maybeToneMapRawHdr(maybeDecodeJpegSdr(u, env), env)
  IN CASE /\ t.sdr_raw_img # Null /\ t.gain_map_raw_img # Null
          /\ t.gain_map_metadata # Null ->
            encode(t, config, env)
       [] t.hdr_raw_img # Null /\ t.sdr_raw_img # Null ->
            IF config.effects = "empty" THEN encode(t, config, env)
            ELSE generateAndEncode(t, config, env)
       [] t.hdr_raw_img # Null ->
            IF config.effects = "empty" THEN encodeFromHdr(t, config, env)
            ELSE generateAndEncode(maybeToneMapRawHdr(t, env), config, env)
       [] OTHER -> Result(t, ULTRAHDR_NO_ERROR, Allocated)

\* case ULTRAHDR_CODEC_HEIC, case ULTRAHDR_CODEC_AVIF
convertHeif(u, config, env) ==
  LET t == maybeDecodeJpegSdr(maybeToneMapRawHdr(u, env), env)
  IN IF t.sdr_raw_img # Null THEN encode(t, config, env)
     ELSE Result(t, ERROR_ULTRAHDR_INSUFFICIENT_RESOURCE, Allocated)

\* case ULTRAHDR_CODEC_HEIC_10_BIT, case ULTRAHDR_CODEC_AVIF_10_BIT,
\* and the RGBAF16 and RGBA1010102 cases of the other overload: the HDR
\* rendition that applyGainMap computes
convertHdr(u, config, env) ==
  LET t == maybeDecodeJpegSdr(u, env)
  IN IF t.sdr_raw_img = Null \/ t.gain_map_raw_img = Null \/ t.gain_map_metadata = Null
     THEN Result(t, ERROR_ULTRAHDR_INSUFFICIENT_RESOURCE, Null)
     ELSE IF env.encodes THEN Result(t, ULTRAHDR_NO_ERROR, Output(config))
          ELSE Result(t, ERROR_ULTRAHDR_BAD_METADATA, Allocated)

\* UltraHdr::convert(ultrahdr_configuration*, uhdr_compressed_ptr&)
convertCompressed(u, config, out, env) ==
  IF config.null \/ out = "nullptr" THEN Result(u, ERROR_ULTRAHDR_BAD_PTR, Null)
  ELSE CASE config.outputCodec = "JPEG" -> convertJpeg(u, config, env)
         [] config.outputCodec = "JPEG_R" -> convertJpegR(u, config, env)
         [] config.outputCodec \in {"HEIC_R", "AVIF_R"} -> convertHeifR(u, config, env)
         [] config.outputCodec \in {"HEIC", "AVIF"} -> convertHeif(u, config, env)
         [] config.outputCodec \in {"HEIC_10_BIT", "AVIF_10_BIT"} ->
              convertHdr(u, config, env)
         [] OTHER -> Result(u, ERROR_ULTRAHDR_INVALID_OUTPUT_FORMAT, Null)

\* case ULTRAHDR_PIX_FMT_RGBA8888 without its test of the effect list
convertRgba8888WithEffects(u, config, env) ==
  IF u.sdr_jpeg_img # Null \/ u.sdr_heif_img # Null
  THEN IF env.decodes THEN Result(u, ULTRAHDR_NO_ERROR, Output(config))
       ELSE Result(u, ERROR_ULTRAHDR_DECODE_ERROR, Allocated)
  ELSE Result(u, ERROR_ULTRAHDR_INSUFFICIENT_RESOURCE, Null)

\* case ULTRAHDR_PIX_FMT_RGBA8888
convertRgba8888(u, config, env) ==
  IF config.effects # "empty" THEN Result(u, ERROR_ULTRAHDR_UNSUPPORTED_FEATURE, Null)
  ELSE IF u.sdr_jpeg_img # Null \/ u.sdr_heif_img # Null
       THEN IF env.decodes THEN Result(u, ULTRAHDR_NO_ERROR, Output(config))
            ELSE Result(u, ERROR_ULTRAHDR_DECODE_ERROR, Allocated)
       ELSE Result(u, ERROR_ULTRAHDR_INSUFFICIENT_RESOURCE, Null)

\* case ULTRAHDR_PIX_FMT_YUV420, which has no return after its if and falls
\* through to case ULTRAHDR_PIX_FMT_RGBA8888 when sdr_raw_img is null
convertYuv420(u, config, env) ==
  LET t == maybeDecodeJpegSdr(maybeToneMapRawHdr(u, env), env)
  IN IF t.sdr_raw_img # Null
     THEN IF config.effects = "empty"
          THEN Result(t, ULTRAHDR_NO_ERROR, Alias("sdr_raw_img"))
          ELSE Result(t, ULTRAHDR_NO_ERROR, Output(config))
     ELSE convertRgba8888(t, config, env)

\* UltraHdr::convert(ultrahdr_configuration*, uhdr_uncompressed_ptr&)
convertUncompressed(u, config, env) ==
  IF config.null THEN Result(u, ERROR_ULTRAHDR_BAD_PTR, Null)
  ELSE IF config.outputCodec # "RAW_PIXELS"
  THEN Result(u, ERROR_ULTRAHDR_INVALID_OUTPUT_FORMAT, Null)
  ELSE CASE config.pixelFormat = "P010" ->
              IF u.hdr_raw_img # Null /\ config.effects = "empty"
              THEN Result(u, ULTRAHDR_NO_ERROR, Alias("hdr_raw_img"))
              ELSE Result(u, ERROR_ULTRAHDR_INSUFFICIENT_RESOURCE, Null)
         [] config.pixelFormat = "YUV420" -> convertYuv420(u, config, env)
         [] config.pixelFormat = "RGBA8888" -> convertRgba8888(u, config, env)
         [] config.pixelFormat = "RGBAF16" ->
              IF config.transferFunction # "LINEAR"
              THEN Result(u, ERROR_ULTRAHDR_UNSUPPORTED_FEATURE, Null)
              ELSE convertHdr(u, config, env)
         [] config.pixelFormat = "RGBA1010102" ->
              IF config.transferFunction \notin {"HLG", "PQ"}
              THEN Result(u, ERROR_ULTRAHDR_UNSUPPORTED_FEATURE, Null)
              ELSE convertHdr(u, config, env)
         [] OTHER -> Result(u, ERROR_ULTRAHDR_UNSUPPORTED_FEATURE, Null)

Called(r, fn, config) ==
  [Mixed(r.u) EXCEPT !.fn = fn,
                     !.arg = Null,
                     !.ran = {},
                     !.status = r.status,
                     !.dest = r.dest]

convert ==
  /\ Alive
  /\ \E args \in ConvertArguments, env \in Environments :
       uhdr' = Called(convertCompressed(Entered(uhdr), args[1], args[2], env),
                      "convert(compressed)", args[1])
  /\ UNCHANGED <<gmVars, tone, edit>>

convertRaw ==
  /\ Alive
  /\ \E config \in UncompressedConfigurations, env \in Environments :
       uhdr' = Called(convertUncompressed(Entered(uhdr), config, env),
                      "convert(uncompressed)", config)
  /\ UNCHANGED <<gmVars, tone, edit>>

InitAssembler ==
  /\ InitNoCall
  /\ tone = ToneIdle
  /\ edit = EditIdle

NextAssembler == addImage \/ addCompressedImage \/ addExif \/ convert \/ convertRaw

SpecAssembler == InitAssembler /\ [][NextAssembler]_vars

\* the members of the object
SlotsOf(u) == [m \in Slots |-> u[m]]

\* C18: first writer wins.  While every call so far was addImage(uncompressed),
\* hdr_raw_img holds a copy of the first P010 buffer that was added and
\* sdr_raw_img a copy of the first YUV420 buffer; and an addImage for a member
\* that is already populated returns ULTRAHDR_NO_ERROR and changes no member.
FirstWriterWins ==
  /\ [](uhdr.raw_only =>
          /\ uhdr.first_p010 \in {<<"a">>, <<"b">>} =>
               uhdr.hdr_raw_img = <<"copy", "P010", uhdr.first_p010[1]>>
          /\ uhdr.first_yuv420 \in {<<"a">>, <<"b">>} =>
               uhdr.sdr_raw_img = <<"copy", "YUV420", uhdr.first_yuv420[1]>>
          /\ uhdr.first_p010 = Null => uhdr.hdr_raw_img = Null
          /\ uhdr.first_yuv420 = Null => uhdr.sdr_raw_img = Null)
  /\ [][uhdr'.fn = "addImage(uncompressed)" =>
          /\ uhdr'.arg[1] = "P010" /\ uhdr.hdr_raw_img # Null =>
               uhdr'.status = ULTRAHDR_NO_ERROR /\ SlotsOf(uhdr') = SlotsOf(uhdr)
          /\ uhdr'.arg[1] = "YUV420" /\ uhdr.sdr_raw_img # Null =>
               uhdr'.status = ULTRAHDR_NO_ERROR /\ SlotsOf(uhdr') = SlotsOf(uhdr)]_vars

\* both members hold their first buffers, and the second P010 buffer was just
\* handed to addImage
FirstWriterWinsWitness ==
  /\ uhdr.raw_only
  /\ uhdr.fn = "addImage(uncompressed)"
  /\ uhdr.arg = <<"P010", "b">>
  /\ uhdr.status = ULTRAHDR_NO_ERROR
  /\ uhdr.first_p010 = <<"a">>
  /\ uhdr.hdr_raw_img = <<"copy", "P010", "a">>
  /\ uhdr.first_yuv420 = <<"b">>
  /\ uhdr.sdr_raw_img = <<"copy", "YUV420", "b">>

\* the members the statement names: sdrCompressed, sdrRaw, hdrRaw, gainMapRaw,
\* gainMapMetadata, exif
NamedSlots ==
  {"sdr_jpeg_img", "sdr_raw_img", "hdr_raw_img", "gain_map_raw_img",
   "gain_map_metadata", "exif"}

\* C19: each member is set at most once.  No addImage, addExif or convert call
\* assigns one of the named members while it is populated.
SlotsSetOnce == uhdr.rewritten \cap NamedSlots = {}

\* convert found sdr_raw_img populated and assigned it again
SlotsSetOnceWitness ==
  /\ uhdr.fn = "convert(uncompressed)"
  /\ uhdr.status = ULTRAHDR_NO_ERROR
  /\ uhdr.rewritten = {"sdr_raw_img"}
  /\ uhdr.sdr_raw_img = <<"decoded", "jpeg">>
  /\ uhdr.dest = Alias("sdr_raw_img")

\* C20: convert never returns ULTRAHDR_NO_ERROR without the output.  After a
\* convert call that returned ULTRAHDR_NO_ERROR, dest holds the requested
\* output or points at the member that is the output.
ConvertProducesOutput ==
  uhdr.fn \in {"convert(compressed)", "convert(uncompressed)"}
    /\ uhdr.status = ULTRAHDR_NO_ERROR
  => uhdr.dest # Null /\ uhdr.dest[1] \in {"alias", "output"}

\* convert returned ULTRAHDR_NO_ERROR on an object without any member, and
\* dest is the buffer createOutputMemory allocated
ConvertProducesOutputWitness ==
  /\ uhdr.fn = "convert(compressed)"
  /\ SlotsOf(uhdr) = SlotsOf(EmptyUltraHdr)
  /\ uhdr.status = ULTRAHDR_NO_ERROR
  /\ uhdr.dest = Allocated

(***************************************************************************)
(* The same object with every call recorded in full: its argument in arg   *)
(* and the collaborators it ran in ran.                                    *)
(***************************************************************************)
\* the configurations of the recorded convert calls: one codec of each case of
\* the two switches, with and without effects, and the transfer functions the
\* HDR pixel formats test
RecordedConfigurations ==
  [null : {FALSE}, outputCodec : {"JPEG", "JPEG_R", "HEIC", "HEIC_R", "HEIC_10_BIT"},
   pixelFormat : {"UNSPECIFIED"}, transferFunction : {"LINEAR"},
   effects : {"empty", "some"}]
  \cup [null : {FALSE}, outputCodec : {"RAW_PIXELS"},
        pixelFormat : {"P010", "YUV420", "RGBA8888"},
        transferFunction : {"LINEAR"}, effects : {"empty", "some"}]
  \cup [null : {FALSE}, outputCodec : {"RAW_PIXELS"},
        pixelFormat : {"RGBAF16", "RGBA1010102"},
        transferFunction : {"LINEAR", "HLG", "PQ"}, effects : {"empty", "some"}]

ConfigurationOf(config) ==
  <<config.outputCodec, config.pixelFormat, config.transferFunction, config.effects>>

Recorded(r, fn, config) ==
  [Mixed(r.u) EXCEPT !.fn = fn,
                     !.arg = ConfigurationOf(config),
                     !.status = r.status,
                     !.dest = r.dest]

convertRecorded ==
  /\ Alive
  /\ \E config \in RecordedConfigurations, env \in Environments :
       /\ config.outputCodec # "RAW_PIXELS"
       /\ uhdr' = Recorded(convertCompressed(Entered(uhdr), config, "buf", env),
                           "convert(compressed)", config)
  /\ UNCHANGED <<gmVars, tone, edit>>

convertRawRecorded ==
  /\ Alive
  /\ \E config \in RecordedConfigurations, env \in Environments :
       /\ config.outputCodec = "RAW_PIXELS"
       /\ uhdr' = Recorded(convertUncompressed(Entered(uhdr), config, env),
                           "convert(uncompressed)", config)
  /\ UNCHANGED <<gmVars, tone, edit>>

NextConvert ==
  addImage \/ addCompressedImage \/ addExif \/ convertRecorded \/ convertRawRecorded

SpecConvert == InitAssembler /\ [][NextConvert]_vars

\* the requests for raw pixels that the code has no path for
UnsupportedCombination(arg) ==
  /\ arg[1] = "RAW_PIXELS"
  /\ \/ arg[2] = "RGBAF16" /\ arg[3] # "LINEAR"
     \/ arg[2] = "RGBA1010102" /\ arg[3] \notin {"HLG", "PQ"}
     \/ arg[2] = "RGBA8888" /\ arg[4] # "empty"

\* C21: convert for RAW_PIXELS returns ERROR_ULTRAHDR_UNSUPPORTED_FEATURE,
\* whatever members are populated, for RGBAF16 with a transfer function other
\* than LINEAR, for RGBA1010102 with one that is neither HLG nor PQ, and for
\* RGBA8888 with effects.
ConvertRejectsCombination ==
  uhdr.fn = "convert(uncompressed)" /\ UnsupportedCombination(uhdr.arg)
  => uhdr.status = ERROR_ULTRAHDR_UNSUPPORTED_FEATURE

\* RGBAF16 with HLG was asked of an object that has everything the RGBAF16
\* path needs
ConvertRejectsCombinationWitness ==
  /\ uhdr.fn = "convert(uncompressed)"
  /\ uhdr.status = ERROR_ULTRAHDR_UNSUPPORTED_FEATURE
  /\ uhdr.sdr_jpeg_img # Null
  /\ uhdr.sdr_raw_img # Null
  /\ uhdr.gain_map_raw_img # Null
  /\ uhdr.gain_map_metadata # Null
  /\ uhdr.arg = <<"RAW_PIXELS", "RGBAF16", "HLG", "empty">>

\* the member that already is the output a request asks for, or Null
Materialized(u, arg) ==
  IF arg[4] # "empty" THEN Null
  ELSE CASE arg[1] = "JPEG" /\ u.sdr_jpeg_img # Null -> <<"sdr_jpeg_img">>
         [] arg[1] = "RAW_PIXELS" /\ arg[2] = "P010" /\ u.hdr_raw_img # Null ->
              <<"hdr_raw_img">>
         [] arg[1] = "RAW_PIXELS" /\ arg[2] = "YUV420" /\ u.sdr_raw_img # Null ->
              <<"sdr_raw_img">>
         [] OTHER -> Null

\* C22: the zero-copy path.  A convert call without effects whose output is a
\* member that is populated when the call starts returns ULTRAHDR_NO_ERROR with
\* dest pointing at that member, runs neither the decoder nor toneMap, and
\* changes no member.
ZeroCopy ==
  [][uhdr'.fn \in {"convert(compressed)", "convert(uncompressed)"}
       /\ Materialized(uhdr, uhdr'.arg) # Null
     => /\ uhdr'.status = ULTRAHDR_NO_ERROR
        /\ uhdr'.dest = Alias(Materialized(uhdr, uhdr'.arg)[1])
        /\ uhdr'.ran = {}
        /\ SlotsOf(uhdr') = SlotsOf(uhdr)]_vars

\* a YUV420 request without effects found the caller's buffer in sdr_raw_img,
\* ran the decoder and points dest at the decoded JPEG
ZeroCopyWitness ==
  /\ uhdr.fn = "convert(uncompressed)"
  /\ uhdr.arg = <<"RAW_PIXELS", "YUV420", "LINEAR", "empty">>
  /\ uhdr.status = ULTRAHDR_NO_ERROR
  /\ uhdr.dest = Alias("sdr_raw_img")
  /\ uhdr.ran = {"decoder"}
  /\ uhdr.rewritten = {"sdr_raw_img"}
  /\ uhdr.sdr_raw_img = <<"decoded", "jpeg">>

\* the requests whose output is made from sdr_raw_img
NeedsRawSdr(arg) ==
  /\ ~UnsupportedCombination(arg)
  /\ \/ arg[1] = "JPEG" /\ arg[4] # "empty"
     \/ arg[1] \in {"JPEG_R", "HEIC", "AVIF", "HEIC_R", "AVIF_R", "HEIC_10_BIT",
                    "AVIF_10_BIT"}
     \/ arg[1] = "RAW_PIXELS" /\ arg[2] \in {"YUV420", "RGBAF16", "RGBA1010102"}

\* C23: convert gets sdr_raw_img for every request that needs it.  When
\* sdr_raw_img is null and sdr_jpeg_img is populated the call runs the decoder;
\* when both are null and hdr_raw_img is populated it runs toneMap; and it does
\* not run toneMap when sdr_raw_img or sdr_jpeg_img is populated.
PrerequisitesEnsured ==
  [][uhdr'.fn \in {"convert(compressed)", "convert(uncompressed)"}
       /\ NeedsRawSdr(uhdr'.arg)
     => /\ uhdr.sdr_raw_img = Null /\ uhdr.sdr_jpeg_img # Null
           => "decoder" \in uhdr'.ran
        /\ uhdr.sdr_raw_img = Null /\ uhdr.sdr_jpeg_img = Null /\ uhdr.hdr_raw_img # Null
           => "toneMap" \in uhdr'.ran
        /\ uhdr.sdr_raw_img # Null \/ uhdr.sdr_jpeg_img # Null
           => "toneMap" \notin uhdr'.ran]_vars

\* a JPEG with effects was asked of an object that holds a JPEG and no raw
\* image: no decoder ran, and the call reports missing members
PrerequisitesEnsuredWitness ==
  /\ uhdr.fn = "convert(compressed)"
  /\ uhdr.arg = <<"JPEG", "UNSPECIFIED", "LINEAR", "some">>
  /\ uhdr.sdr_jpeg_img # Null
  /\ uhdr.sdr_raw_img = Null
  /\ uhdr.hdr_raw_img = Null
  /\ uhdr.ran = {}
  /\ uhdr.status = ERROR_ULTRAHDR_INSUFFICIENT_RESOURCE

\* the compressed image a recorded addImage call was given
ImageOf(arg) == CHOOSE image \in CompressedImages : image.id = arg[2]

\* C24: what addImage(compressed) populates.  When it returns
\* ULTRAHDR_NO_ERROR on an object without members: for a JPEG with gain map
\* sdr_jpeg_img, gain_map_jpeg_img, gain_map_raw_img and gain_map_metadata are
\* populated; for a HEIF with a 10-bit primary hdr_raw_img, with an 8-bit
\* primary sdr_raw_img; and for a HEIF with gain map gain_map_raw_img and
\* gain_map_metadata.
AddCompressedPopulates ==
  [][uhdr'.fn = "addImage(compressed)" /\ uhdr'.status = ULTRAHDR_NO_ERROR
       /\ SlotsOf(uhdr) = SlotsOf(EmptyUltraHdr)
     => LET image == ImageOf(uhdr'.arg)
        IN /\ image.kind = "jpegr" =>
                /\ uhdr'.sdr_jpeg_img # Null
                /\ uhdr'.gain_map_jpeg_img # Null
                /\ uhdr'.gain_map_raw_img # Null
                /\ uhdr'.gain_map_metadata # Null
           /\ image.kind = "heif" /\ image.bits = 10 => uhdr'.hdr_raw_img # Null
           /\ image.kind = "heif" /\ image.bits = 8 => uhdr'.sdr_raw_img # Null
           /\ image.kind = "heif" /\ image.gain_map =>
                /\ uhdr'.gain_map_raw_img # Null
                /\ uhdr'.gain_map_metadata # Null]_vars

\* a JPEG with gain map was added to a new object: the primary JPEG, the decoded
\* gain map and its metadata are there, the compressed gain map is not
AddCompressedPopulatesWitness ==
  /\ uhdr.fn = "addImage(compressed)"
  /\ uhdr.arg = <<"jpegr", "r">>
  /\ uhdr.status = ULTRAHDR_NO_ERROR
  /\ uhdr.sdr_jpeg_img # Null
  /\ uhdr.gain_map_raw_img # Null
  /\ uhdr.gain_map_metadata # Null
  /\ uhdr.gain_map_jpeg_img = Null
  /\ uhdr.sdr_raw_img = Null /\ uhdr.hdr_raw_img = Null /\ uhdr.exif = Null


\* ---------------------------------------------------------------------------
\* addImage(compressed) over byte prefixes
\* ---------------------------------------------------------------------------

\* the byte values the short inputs are made of
SniffBytes == {0, 216, 255}

\* the longest short input
MaxSniffLen == 3

\* the first eight bytes of an ISOBMFF file: box length and "ftyp"
FtypBox == <<0, 0, 0, 24, 102, 116, 121, 112>>

\* the inputs of addImage(compressed): every file of at most MaxSniffLen bytes
\* (the empty one stands for a null data pointer as well), and the first twelve
\* bytes of files that start with an ftyp box or with an SOI marker, with a
\* brand the library knows or "jp2 " at bytes 8..11
SniffInputs ==
  UNION {[1..n -> SniffBytes] : n \in 0..MaxSniffLen}
    \cup {FtypBox \o brand : brand \in AvifBrands \cup HeicBrands \cup {<<106, 112, 50, 32>>}}
    \cup {<<255, 216, 255, 224, 0, 16, 74, 70>> \o brand :
            brand \in {<<104, 101, 105, 99>>, <<73, 70, 0, 1>>}}
    \cup {<<0, 0, 255, 24, 102, 116, 121, 112, 104, 101, 105, 99>>}

\* the file with these bytes: not a JPEG with gain map, and when libheif
\* reads it, it finds an 8-bit primary image, no Exif block and no gain map
FileOf(data) ==
  [kind |-> "bytes", id |-> "x", bits |-> 8, exif_blocks |-> 0, gain_map |-> FALSE,
   data |-> data]

\* UltraHdr::addImage(ultrahdr_compressed_struct*) on a file given by its bytes
addImageBytes ==
  /\ Alive
  /\ \E data \in SniffInputs, env \in Environments :
       uhdr' = [Mixed(addImageCompressed(Entered(uhdr), FileOf(data), env)) EXCEPT
                  !.fn = "addImage(compressed)",
                  !.arg = <<"bytes", data>>,
                  !.dest = Null]
  /\ UNCHANGED <<gmVars, tone, edit>>

NextSniff == addImageBytes

SpecSniff == InitAssembler /\ [][NextSniff]_vars

\* the first two bytes are the SOI marker FF D8
StartsWithSoi(data) == Len(data) >= 2 /\ data[1] = 255 /\ data[2] = 216

\* bytes 8..11 are a brand of isAvif or isHeic
HasKnownBrand(data) ==
  Len(data) >= 12 /\ SubSeq(data, 9, 12) \in AvifBrands \cup HeicBrands

\* C25: addImage(compressed) classifies its input by the byte prefix only.  It
\* takes the JPEG branch exactly when the first two bytes are FF D8, the HEIF
\* branch exactly when the input is not such a JPEG and bytes 8..11 are a known
\* brand, and on every other input it returns UNSUPPORTED_FEATURE and leaves
\* all slots as they were.
SniffsPrefix ==
  [][uhdr'.fn = "addImage(compressed)" /\ uhdr'.arg[1] = "bytes"
     => LET data == uhdr'.arg[2]
            jpeg == StartsWithSoi(data)
            heif == ~jpeg /\ HasKnownBrand(data)
        IN  /\ "JpegR" \in uhdr'.ran <=> jpeg
            /\ "libheif" \in uhdr'.ran <=> heif
            /\ ~jpeg /\ ~heif
               => /\ uhdr'.status = ERROR_ULTRAHDR_UNSUPPORTED_FEATURE
                  /\ SlotsOf(uhdr') = SlotsOf(uhdr)]_vars

\* the three bytes 00 00 FF were taken as a JPEG and stored in sdr_jpeg_img
SniffsPrefixWitness ==
  /\ uhdr.fn = "addImage(compressed)"
  /\ uhdr.arg = <<"bytes", <<0, 0, 255>>>>
  /\ "JpegR" \in uhdr.ran
  /\ uhdr.sdr_jpeg_img # Null
  /\ uhdr.status = ULTRAHDR_NO_ERROR


\* ---------------------------------------------------------------------------
\* generateGainMap followed by applyGainMap on what it produced
\* ---------------------------------------------------------------------------

\* the largest side of the round trips is 2 * MaxRoundTripUnits
MaxRoundTripUnits == 6

\* sides that JpegR::areInputArgumentsValid lets pass: even, and from twice the
\* map scale factor up
RoundTripSides == {2 * k : k \in kMapDimensionScaleFactor .. MaxRoundTripUnits}

\* generateGainMap on a valid pair of pictures of equal size
RoundTripArguments ==
  {<<Call("generateGainMap",
          Image(FALSE, "buf", "buf", w, h, "BT709"),
          Image(FALSE, "buf", "buf", w, h, "BT2100"),
          NoImage, tf, FALSE, "SDR", Rat(1, 1), cores),
     md, Dest(FALSE, "nullptr", 0, 0)>> :
     w \in RoundTripSides, h \in RoundTripSides, tf \in {"HLG", "PQ"},
     cores \in {1, 2}, md \in PriorMetadata}

\* HeifR::decodeHeifWithGainMap after an encode: the primary image comes back
\* with the size of the encoder's input, the gain map and the metadata come
\* back as generateGainMap left them, and applyGainMap is entered with them
decodeHeifWithGainMap ==
  /\ call.fn = "generateGainMap"
  /\ tpc[0] = "returned"
  /\ status = ULTRAHDR_NO_ERROR
  /\ call' = Call("applyGainMap", call.yuv420_image_ptr, NoImage,
                  Image(FALSE, dest.data, "nullptr", dest.width, dest.height, "UNSPECIFIED"),
                  "UNSPECIFIED", FALSE, "HDR_LINEAR", Rat(4, 1), call.cores)
  /\ dest' = Dest(FALSE, "buf", 0, 0)
  /\ status' = "pending"
  /\ locals' = NoLocals
  /\ mJobs' = <<>>
  /\ mQueuedAllJobs' = FALSE
  /\ tpc' = [t \in Threads |-> IF t = 0 THEN "entry" ELSE "unborn"]
  /\ tjob' = [t \in Threads |-> <<0, 0>>]
  /\ written' = <<>>
  /\ enqueued' = <<>>
  /\ dequeued' = <<>>
  /\ sampler' = {}
  /\ UNCHANGED <<metadata, tone, edit, uhdr>>

InitRoundTrip == InitCall(RoundTripArguments)

NextRoundTrip == NextGainMap \/ decodeHeifWithGainMap

SpecRoundTrip == InitRoundTrip /\ [][NextRoundTrip]_vars

\* C26: a gain map generated from valid pictures of W x H decodes again.  When
\* applyGainMap returns on the pictures and the map and metadata that
\* generateGainMap produced, it returns ULTRAHDR_NO_ERROR, the output has the
\* size W x H and the map has the size W/4 x H/4.
RoundTripDecodes ==
  call.fn = "applyGainMap" /\ tpc[0] = "returned"
  => /\ status = ULTRAHDR_NO_ERROR
     /\ dest.width = call.yuv420_image_ptr.width
     /\ dest.height = call.yuv420_image_ptr.height
     /\ call.gainmap_image_ptr.width =
          call.yuv420_image_ptr.width \div kMapDimensionScaleFactor
     /\ call.gainmap_image_ptr.height =
          call.yuv420_image_ptr.height \div kMapDimensionScaleFactor

\* the map of 2 x 2 made from pictures of 10 x 8 was refused by applyGainMap
RoundTripDecodesWitness ==
  /\ call.fn = "applyGainMap"
  /\ tpc[0] = "returned"
  /\ call.yuv420_image_ptr.width = 10
  /\ call.yuv420_image_ptr.height = 8
  /\ call.gainmap_image_ptr.width = 2
  /\ call.gainmap_image_ptr.height = 2
  /\ status = ERROR_ULTRAHDR_UNSUPPORTED_MAP_SCALE_FACTOR


\* ---------------------------------------------------------------------------
\* JpegR::appendGainMap
\* ---------------------------------------------------------------------------

\* a < b on floats
RatLt(a, b) == a[1] * b[2] < b[1] * a[2]

\* the early returns of appendGainMap on its pointers and its metadata, in the
\* order of the code; "pending" when none is taken
appendGainMapStatus(primary, gainmap, md, dst) ==
  IF primary.null \/ gainmap.null \/ md.null \/ dst.null
  THEN ERROR_ULTRAHDR_BAD_PTR
  ELSE IF md.version # "1.0"
  THEN ERROR_ULTRAHDR_BAD_METADATA
  ELSE IF RatLt(md.maxContentBoost, md.minContentBoost)
  THEN ERROR_ULTRAHDR_BAD_METADATA
  ELSE IF RatLt(md.hdrCapacityMax, md.hdrCapacityMin) \/ RatLt(md.hdrCapacityMin, Rat(1, 1))
  THEN ERROR_ULTRAHDR_BAD_METADATA
  ELSE IF RatLt(md.offsetSdr, Rat(0, 1)) \/ RatLt(md.offsetHdr, Rat(0, 1))
  THEN ERROR_ULTRAHDR_BAD_METADATA
  ELSE IF RatLe(md.gamma, Rat(0, 1))
  THEN ERROR_ULTRAHDR_BAD_METADATA
  ELSE "pending"

\* the compressed pictures handed to appendGainMap: a null pointer, a JPEG
\* without EXIF, a JPEG with EXIF, and bytes in which extractEXIF fails
JpegArguments ==
  {[null |-> TRUE, exif |-> FALSE, readable |-> FALSE],
   [null |-> FALSE, exif |-> FALSE, readable |-> TRUE],
   [null |-> FALSE, exif |-> TRUE, readable |-> TRUE],
   [null |-> FALSE, exif |-> FALSE, readable |-> FALSE]}

\* the destination of appendGainMap: written counts the calls of Write that
\* copied into dest->data, length is the member dest->length
CompressedDest(null) == [null |-> null, written |-> 0, length |-> 0]

\* the largest number of Write calls of one appendGainMap: SOI 2, EXIF 5,
\* XMP 6, ICC 5, MPF 5, primary 1, SOI 2, XMP 6, secondary 1
MaxWrites == 33

\* where a call's Write calls stop: the call in which Write reports an error
\* for want of room, MaxWrites + 1 when every one succeeds
WriteFailures == {1, 2, 3, MaxWrites + 1}

\* the metadata handed to appendGainMap: what generateGainMap makes, and the
\* same with one field changed
AppendMetadata ==
  LET good == Metadata(FALSE, "1.0", Rat(4, 1), Rat(1, 1), Rat(1, 1),
                       Rat(0, 1), Rat(0, 1), Rat(1, 1), Rat(4, 1))
  IN {NullMetadata, good,
      [good EXCEPT !.version = "1"],
      [good EXCEPT !.minContentBoost = Rat(5, 1)],
      [good EXCEPT !.minContentBoost = Rat(-1, 1)],
      [good EXCEPT !.minContentBoost = Rat(0, 1)],
      [good EXCEPT !.maxContentBoost = Rat(-2, 1), !.minContentBoost = Rat(-3, 1)],
      [good EXCEPT !.hdrCapacityMax = Rat(1, 2)],
      [good EXCEPT !.hdrCapacityMin = Rat(1, 2)],
      [good EXCEPT !.offsetSdr = Rat(-1, 64)],
      [good EXCEPT !.offsetHdr = Rat(-1, 64)],
      [good EXCEPT !.offsetSdr = Rat(1, 64)],
      [good EXCEPT !.gamma = Rat(0, 1)],
      [good EXCEPT !.gamma = Rat(-1, 1)],
      [good EXCEPT !.gamma = Rat(22, 10)]}

AppendArguments ==
  {<<[fn |-> "appendGainMap", primary_jpg_image_ptr |-> primary,
      gainmap_jpg_image_ptr |-> gainmap, pExif |-> pExif, icc_size |-> icc_size,
      write_fails |-> write_fails],
     md, CompressedDest(null)>> :
     primary \in JpegArguments,
     gainmap \in {j \in JpegArguments : ~j.exif /\ (j.null <=> ~j.readable)},
     pExif \in {"nullptr", "exif"}, icc_size \in {0, 1},
     write_fails \in WriteFailures, md \in AppendMetadata, null \in BOOLEAN}

\* the Write calls of appendGainMap with these parts
WritesOf(exif, icc) ==
  2 + (IF exif THEN 5 ELSE 0) + 6 + (IF icc THEN 5 ELSE 0) + 5 + 1 + 2 + 6 + 1

\* JpegR::appendGainMap
appendGainMap ==
  /\ tpc[0] = "entry"
  /\ call.fn = "appendGainMap"
  /\ LET primary == call.primary_jpg_image_ptr
         st == appendGainMapStatus(primary, call.gainmap_jpg_image_ptr, metadata, dest)
         writes == WritesOf(primary.exif \/ call.pExif # "nullptr", call.icc_size > 0)
     IN IF st # "pending"
        THEN status' = st /\ UNCHANGED dest
        ELSE IF ~primary.readable
        THEN status' = ERROR_ULTRAHDR_DECODE_ERROR /\ UNCHANGED dest
        ELSE IF primary.exif /\ call.pExif # "nullptr"
        THEN status' = ERROR_ULTRAHDR_MULTIPLE_EXIFS_RECEIVED /\ UNCHANGED dest
        ELSE IF call.write_fails <= writes
        THEN /\ status' = ERROR_ULTRAHDR_BUFFER_TOO_SMALL
             /\ dest' = [dest EXCEPT !.written = call.write_fails - 1]
        ELSE /\ status' = ULTRAHDR_NO_ERROR
             /\ dest' = [dest EXCEPT !.written = writes, !.length = writes]
  /\ tpc' = [tpc EXCEPT ![0] = "returned"]
  /\ UNCHANGED <<call, metadata, locals, mJobs, mQueuedAllJobs, tjob, written, enqueued,
                 dequeued, sampler, tone, edit, uhdr>>

InitAppend == InitCall(AppendArguments)

NextAppend == appendGainMap

SpecAppend == InitAppend /\ [][NextAppend]_vars

\* metadata that breaks an invariant of the data model
InvalidMetadata(md) ==
  \/ md.version # "1.0"
  \/ RatLt(md.maxContentBoost, md.minContentBoost)
  \/ RatLt(md.minContentBoost, Rat(0, 1))
  \/ RatLt(md.hdrCapacityMax, md.hdrCapacityMin)
  \/ RatLt(md.hdrCapacityMin, Rat(1, 1))
  \/ RatLt(md.offsetSdr, Rat(0, 1))
  \/ RatLt(md.offsetHdr, Rat(0, 1))
  \/ RatLe(md.gamma, Rat(0, 1))

\* appendGainMap was called with every pointer set and has returned
AppendReturned ==
  /\ call.fn = "appendGainMap"
  /\ tpc[0] = "returned"
  /\ ~call.primary_jpg_image_ptr.null
  /\ ~call.gainmap_jpg_image_ptr.null
  /\ ~metadata.null
  /\ ~dest.null

\* C27: appendGainMap refuses metadata that breaks an invariant of the data
\* model (version other than "1.0", maxContentBoost < minContentBoost,
\* minContentBoost < 0, hdrCapacityMax < hdrCapacityMin, hdrCapacityMin < 1,
\* a negative offset, gamma <= 0): it returns ERROR_ULTRAHDR_BAD_METADATA and
\* has written nothing to dest.
AppendRejectsMetadata ==
  AppendReturned /\ InvalidMetadata(metadata)
  => status = ERROR_ULTRAHDR_BAD_METADATA /\ dest.written = 0 /\ dest.length = 0

\* metadata with minContentBoost = -1 was accepted and the container written
AppendRejectsMetadataWitness ==
  /\ AppendReturned
  /\ RatEq(metadata.minContentBoost, Rat(-1, 1))
  /\ RatEq(metadata.maxContentBoost, Rat(4, 1))
  /\ status = ULTRAHDR_NO_ERROR
  /\ dest.written > 0


\* ---------------------------------------------------------------------------
\* HeifR::encodeHeifWithGainMap and HeifR::decodeHeifWithGainMap
\* ---------------------------------------------------------------------------

\* container sizes and destination capacities range over 0 .. MaxHeifUnits
MaxHeifUnits == 3

\* the codecs for which encodeHeifWithGainMap finds an encoder
HeifCodecs == {"HEIC_R", "HEIC", "HEIC_10_BIT", "AVIF_R", "AVIF", "AVIF_10_BIT"}

\* the destination of an encode call: a buffer of maxLength bytes; written
\* counts the bytes copied to dest->data and beyond it
HeifDest(maxLength) == [null |-> FALSE, maxLength |-> maxLength, written |-> 0, length |-> 0]

\* what a build does when it writes, reads or frees through a pointer that
\* does not own the memory: it traps, or it goes on
WildPointerOutcomes == {"SIGSEGV", "goes on"}

\* memcpy(dest->data, writer.data(), writer.size()); dest->length = writer.size();
\* return ULTRAHDR_NO_ERROR.  No statement compares the size with maxLength.
copyContainer(dst, size) ==
  IF size <= dst.maxLength
  THEN {[status |-> ULTRAHDR_NO_ERROR,
         dest |-> [dst EXCEPT !.written = size, !.length = size]]}
  ELSE {IF outcome = "SIGSEGV"
        THEN [status |-> "SIGSEGV", dest |-> [dst EXCEPT !.written = dst.maxLength + 1]]
        ELSE [status |-> ULTRAHDR_NO_ERROR,
              dest |-> [dst EXCEPT !.written = size, !.length = size]] :
        outcome \in WildPointerOutcomes}

\* Encode API-x: the outcomes of the call when libheif makes a container of
\* `size` bytes
encodeHeifWithGainMapX(dst, codec, size) ==
  IF codec \notin HeifCodecs
  THEN {[status |-> ERROR_ULTRAHDR_UNSUPPORTED_FEATURE, dest |-> dst]}
  ELSE copyContainer(dst, size)

\* Encode API-1: the status of generateGainMap is dropped; when it returned
\* early, gainmap_image is uninitialized (or, after INVALID_TRANS_FUNC, freed)
\* and is handed to map_data.reset and to API-x all the same
encodeHeifWithGainMap1(p010, yuv, hdr_tf, dst, codec, size) ==
  LET md == Metadata(FALSE, "1", Rat(0, 1), Rat(0, 1), Rat(0, 1), Rat(0, 1), Rat(0, 1),
                     Rat(0, 1), Rat(0, 1))
      st == generateGainMapStatus([yuv EXCEPT !.chroma_data = "buf"],
                                  [p010 EXCEPT !.chroma_data = "buf"],
                                  md, Dest(FALSE, "nullptr", 0, 0), hdr_tf)
  IN IF st = "pending"
     THEN encodeHeifWithGainMapX(dst, codec, size)
     ELSE {[status |-> "SIGSEGV", dest |-> dst]} \cup encodeHeifWithGainMapX(dst, codec, size)

\* Encode API-0: toneMap fills an SDR picture of the size and gamut of the
\* HDR one, then API-1
encodeHeifWithGainMap0(p010, hdr_tf, dst, codec, size) ==
  encodeHeifWithGainMap1(p010, Image(FALSE, "buf", "buf", p010.width, p010.height,
                                     p010.colorGamut),
                         hdr_tf, dst, codec, size)

\* the calls of the three encode entry points
HeifEncodeArguments ==
  {<<[fn |-> "encodeHeifWithGainMap", api |-> api,
      p010_image_ptr |-> Image(FALSE, "buf", pc, w, h, gh),
      yuv420_image_ptr |-> Image(FALSE, "buf", "nullptr", w + dw, h, gs),
      hdr_tf |-> tf, codec |-> codec, size |-> size],
     NullMetadata, HeifDest(maxLength)>> :
     api \in {"API-0", "API-1", "API-x"}, pc \in {"buf", "nullptr"},
     w \in {8, 12}, h \in {8}, dw \in {0, 4},
     gh \in {"BT2100", "UNSPECIFIED"}, gs \in {"BT709"}, tf \in {"HLG", "SRGB"},
     codec \in {"HEIC_R", "AVIF_R", "JPEG_R"},
     size \in 1 .. MaxHeifUnits, maxLength \in 0 .. MaxHeifUnits}

\* HeifR::encodeHeifWithGainMap, each of its three overloads
encodeHeifWithGainMap ==
  /\ tpc[0] = "entry"
  /\ call.fn = "encodeHeifWithGainMap"
  /\ \E outcome \in
          CASE call.api = "API-0" ->
                 encodeHeifWithGainMap0(call.p010_image_ptr, call.hdr_tf, dest, call.codec,
                                        call.size)
            [] call.api = "API-1" ->
                 encodeHeifWithGainMap1(call.p010_image_ptr, call.yuv420_image_ptr,
                                        call.hdr_tf, dest, call.codec, call.size)
            [] OTHER -> encodeHeifWithGainMapX(dest, call.codec, call.size) :
       /\ status' = outcome.status
       /\ dest' = outcome.dest
  /\ tpc' = [tpc EXCEPT ![0] = "returned"]
  /\ UNCHANGED <<call, metadata, locals, mJobs, mQueuedAllJobs, tjob, written, enqueued,
                 dequeued, sampler, tone, edit, uhdr>>

\* convert_libheif_metadata_to_libultrahdr_metadata: the boosts and capacities
\* are constants, gamma and the offsets are quotients of the stored pairs
convert_libheif_metadata_to_libultrahdr_metadata(from) ==
  LET maxContentBoost == RatDiv(ToFloat(kHlgMaxNits), ToFloat(kSdrWhiteNits))
  IN Metadata(FALSE, kGainMapVersion, maxContentBoost, Rat(1, 1),
              Rat(from.gainMapGammaN \div from.gainMapGammaD, 1),
              Rat(from.baseOffsetN \div from.baseOffsetD, 1),
              Rat(from.alternateOffsetN \div from.alternateOffsetD, 1),
              Rat(1, 1), maxContentBoost)

\* the calls of decodeHeifWithGainMap: a container with a primary picture,
\* with or without a gain map, and the metadata pairs stored with it
HeifDecodeArguments ==
  {<<[fn |-> "decodeHeifWithGainMap", width |-> w, height |-> h,
      gain_map |-> gm,
      gmm |-> [gainMapGammaN |-> gammaN, gainMapGammaD |-> 1000000,
               baseOffsetN |-> 0, baseOffsetD |-> 1000000,
               alternateOffsetN |-> 0, alternateOffsetD |-> 1000000],
      output_format |-> fmt],
     NullMetadata, dst>> :
     w \in {8, 10, 12}, h \in {8, 12},
     gm \in {NoImage} \cup {Image(FALSE, "buf", "nullptr", mw, mh, "UNSPECIFIED") :
                              mw \in {2, 3}, mh \in {2, 3}},
     gammaN \in {1000000, 2000000}, fmt \in {"SDR", "HDR_LINEAR"},
     dst \in {Dest(TRUE, "nullptr", 0, 0), Dest(FALSE, "buf", 0, 0)}}

\* the pictures and metadata decodeHeifWithGainMap hands to applyGainMap
DecodedYuv(c) == Image(FALSE, "buf", "buf", c.width, c.height, "UNSPECIFIED")

\* HeifR::decodeHeifWithGainMap
decodeContainer ==
  /\ tpc[0] = "entry"
  /\ call.fn = "decodeHeifWithGainMap"
  /\ LET decoded == convert_libheif_metadata_to_libultrahdr_metadata(call.gmm)
         st == applyGainMapStatus(DecodedYuv(call), call.gain_map, decoded, dest)
     IN IF call.output_format = "SDR"
        THEN IF dest.null
             THEN status' = "SIGSEGV" /\ UNCHANGED <<dest, metadata>>
             ELSE /\ status' = ULTRAHDR_NO_ERROR
                  /\ dest' = [dest EXCEPT !.width = call.width, !.height = call.height]
                  /\ UNCHANGED metadata
        ELSE IF call.gain_map.null
        THEN status' = ERROR_ULTRAHDR_GAIN_MAP_IMAGE_NOT_FOUND /\ UNCHANGED <<dest, metadata>>
        ELSE /\ metadata' = decoded
             /\ IF dest.null
                THEN status' = ULTRAHDR_NO_ERROR /\ UNCHANGED dest
                ELSE IF st = "pending"
                THEN /\ status' = ULTRAHDR_NO_ERROR
                     /\ dest' = [dest EXCEPT !.width = call.width, !.height = call.height,
                                             !.colorGamut = "UNSPECIFIED"]
                ELSE IF st = "undefined"
                THEN status' \in {"SIGFPE", ULTRAHDR_NO_ERROR} /\ UNCHANGED dest
                ELSE status' = ULTRAHDR_NO_ERROR /\ UNCHANGED dest
  /\ tpc' = [tpc EXCEPT ![0] = "returned"]
  /\ UNCHANGED <<call, locals, mJobs, mQueuedAllJobs, tjob, written, enqueued,
                 dequeued, sampler, tone, edit, uhdr>>

InitHeifR == InitCall(HeifEncodeArguments \cup HeifDecodeArguments)

NextHeifR == encodeHeifWithGainMap \/ decodeContainer

SpecHeifR == InitHeifR /\ [][NextHeifR]_vars

\* an encode call has returned
EncodeReturned == call.fn = "encodeHeifWithGainMap" /\ tpc[0] = "returned"

\* C28: encodeHeifWithGainMap (API-0, API-1, API-x) never writes more than
\* dest->maxLength bytes to dest->data, and when the container it made is
\* larger than maxLength it returns ERROR_ULTRAHDR_BUFFER_TOO_SMALL and has
\* copied nothing.
EncodeRespectsMaxLength ==
  EncodeReturned
  => /\ dest.written <= dest.maxLength
     /\ call.codec \in HeifCodecs /\ call.size > dest.maxLength
        => status = ERROR_ULTRAHDR_BUFFER_TOO_SMALL /\ dest.written = 0

\* API-x made a container of 3 bytes for a destination of 2, copied all of it
\* and returned ULTRAHDR_NO_ERROR
EncodeRespectsMaxLengthWitness ==
  /\ EncodeReturned
  /\ call.api = "API-x"
  /\ call.size = 3
  /\ dest.maxLength = 2
  /\ dest.written = 3
  /\ dest.length = 3
  /\ status = ULTRAHDR_NO_ERROR

\* the status generateGainMap returned inside an API-1 call
GeneratedStatus ==
  generateGainMapStatus([call.yuv420_image_ptr EXCEPT !.chroma_data = "buf"],
                        [call.p010_image_ptr EXCEPT !.chroma_data = "buf"],
                        Metadata(FALSE, "1", Rat(0, 1), Rat(0, 1), Rat(0, 1), Rat(0, 1),
                                 Rat(0, 1), Rat(0, 1), Rat(0, 1)),
                        Dest(FALSE, "nullptr", 0, 0), call.hdr_tf)

\* the status applyGainMap returned inside a decode call that reached it
AppliedStatus == applyGainMapStatus(DecodedYuv(call), call.gain_map, metadata, dest)

\* a decode call that reached applyGainMap has returned
DecodeApplied ==
  /\ call.fn = "decodeHeifWithGainMap"
  /\ tpc[0] = "returned"
  /\ call.output_format # "SDR"
  /\ ~call.gain_map.null
  /\ ~dest.null

\* C29: the HEIF entry points return the errors of their inner steps.  An
\* API-1 encode in which generateGainMap failed returns generateGainMap's
\* error, and a decode in which applyGainMap failed returns applyGainMap's
\* error.
HeifSurfacesErrors ==
  /\ EncodeReturned /\ call.api = "API-1" /\ GeneratedStatus # "pending"
     => status = GeneratedStatus
  /\ DecodeApplied /\ AppliedStatus \notin {"pending", "undefined"}
     => status = AppliedStatus

\* API-1 was given an HDR picture of 8 x 8 and an SDR picture of 12 x 8 and
\* returned ULTRAHDR_NO_ERROR
HeifSurfacesErrorsWitness ==
  /\ EncodeReturned
  /\ call.api = "API-1"
  /\ call.p010_image_ptr.width = 8
  /\ call.yuv420_image_ptr.width = 12
  /\ GeneratedStatus = ERROR_ULTRAHDR_RESOLUTION_MISMATCH
  /\ status = ULTRAHDR_NO_ERROR


\* ---------------------------------------------------------------------------
\* convert(compressed) over one destination pointer used call after call
\* ---------------------------------------------------------------------------

\* MAX_BUFFER_SIZE, counted in units in which the sizes of the outputs are
\* whole numbers
MaxBufferUnits == 2

\* the length of the JPEG that addImage stored in sdr_jpeg_img
JpegUnits == 1

\* an ultrahdr_compressed_struct: capacity is the size of the buffer that
\* data points to, 0 when data is nullptr
Compressed(capacity, length, maxLength) ==
  [capacity |-> capacity, length |-> length, maxLength |-> maxLength]

\* the caller's pointer dest, which convert takes by reference: the struct
\* it points to now, the struct the caller made, and the struct of member
\* sdr_jpeg_img (addImage sets its data and length and leaves maxLength 0)
Destinations ==
  {[points_to |-> "caller", caller |-> c, member |-> Compressed(JpegUnits, JpegUnits, 0)] :
     c \in {Compressed(0, 0, 0), Compressed(JpegUnits, 0, JpegUnits)}}

\* the struct dest points to
Pointee(d) == IF d.points_to = "caller" THEN d.caller ELSE d.member

\* the pointer with the struct it points to replaced
WithPointee(d, s) ==
  IF d.points_to = "caller" THEN [d EXCEPT !.caller = s] ELSE [d EXCEPT !.member = s]

\* UltraHdr::createOutputMemory(size, dest->data)
createOutputMemory(size, s) ==
  IF s.capacity # 0 THEN s ELSE [s EXCEPT !.capacity = size]

\* what a convert call with result r does to dest: nothing on the paths that
\* return before touching it; dest = sdr_jpeg_img.get(); the JPEG path, which
\* sizes dest by the encoded picture of `size` units; and the other codecs,
\* which size it by MAX_BUFFER_SIZE at the head of their case
destAfterConvert(d, r, config, size) ==
  CASE r.dest = Null -> d
    [] r.dest = Alias("sdr_jpeg_img") -> [d EXCEPT !.points_to = "sdr_jpeg_img"]
    [] config.outputCodec = "JPEG" ->
         WithPointee(d, [createOutputMemory(size, Pointee(d)) EXCEPT
                           !.length = size, !.maxLength = size])
    [] r.dest = Allocated ->
         WithPointee(d, [createOutputMemory(MaxBufferUnits, Pointee(d)) EXCEPT
                           !.maxLength = MaxBufferUnits])
    [] OTHER ->
         WithPointee(d, [createOutputMemory(MaxBufferUnits, Pointee(d)) EXCEPT
                           !.length = size, !.maxLength = MaxBufferUnits])

\* the call copied more into the buffer than it holds
Overflowed(d, r) == r.dest # Null /\ r.dest[1] = "output" /\ Pointee(d).length > Pointee(d).capacity

\* UltraHdr::convert(ultrahdr_configuration*, uhdr_compressed_ptr&) with the
\* destination the last call left
convertReusing ==
  /\ Alive
  /\ \E config \in {c \in CompressedConfigurations :
                      c.outputCodec \in {"JPEG", "JPEG_R", "HEIC_R", "HEIC_10_BIT"}},
        env \in Environments, size \in 1 .. MaxBufferUnits :
       LET r == convertCompressed(Entered(uhdr), config, "buf", env)
           d == destAfterConvert(dest, r, config, size)
       IN /\ dest' = d
          /\ \E outcome \in IF Overflowed(d, r) THEN WildPointerOutcomes ELSE {"goes on"} :
               uhdr' = [Called(r, "convert(compressed)", config) EXCEPT
                          !.status = IF outcome = "SIGSEGV" THEN "SIGSEGV" ELSE @]
  /\ UNCHANGED <<call, metadata, status, locals, mJobs, mQueuedAllJobs, tpc, tjob,
                 written, enqueued, dequeued, sampler, tone, edit>>

InitDest ==
  /\ call = NoCall
  /\ metadata = NullMetadata
  /\ dest \in Destinations
  /\ status = "pending"
  /\ locals = NoLocals
  /\ mJobs = <<>>
  /\ mQueuedAllJobs = FALSE
  /\ tpc = [t \in Threads |-> IF t = 0 THEN "entry" ELSE "unborn"]
  /\ tjob = [t \in Threads |-> <<0, 0>>]
  /\ written = <<>>
  /\ enqueued = <<>>
  /\ dequeued = <<>>
  /\ sampler = {}
  /\ tone = ToneIdle
  /\ edit = EditIdle
  /\ uhdr = EmptyUltraHdr

NextDest == addCompressedImage \/ convertReusing

SpecDest == InitDest /\ [][NextDest]_vars

\* C30: over any sequence of convert calls on one destination, the length and
\* the maxLength of the struct that dest points to never exceed the size of
\* the buffer its data points to.
DestWithinCapacity ==
  /\ Pointee(dest).length <= Pointee(dest).capacity
  /\ Pointee(dest).maxLength <= Pointee(dest).capacity

\* the caller's struct holds a buffer of one unit with an output of one unit
\* in it, and a later call for another codec set maxLength to MAX_BUFFER_SIZE
DestWithinCapacityWitness ==
  /\ uhdr.fn = "convert(compressed)"
  /\ dest.points_to = "caller"
  /\ dest.caller.capacity = 1
  /\ dest.caller.length = 1
  /\ dest.caller.maxLength = MaxBufferUnits

====
